---- MODULE Spec2Model ----
(***************************************************************************)
(* A model of the Monkey interpreter (junhat6/go-monkey): the AST walker   *)
(* ast.Modify, the lexical environment, the macro pass (DefineMacros,      *)
(* ExpandMacros), the tree-walking evaluator Eval with its built-ins and   *)
(* quote/unquote, and the REPL loop that drives them over one shared       *)
(* environment and one shared macro environment.                           *)
(*                                                                         *)
(* AST nodes live in a node store (ast) and are referred to by index, as   *)
(* the Go code refers to them by pointer: ast.Modify rewrites child        *)
(* positions in place, and Function, Macro and Quote values hold pointers  *)
(* into the tree.  Environments live in a second store (heap).  Index 0 is *)
(* the nil pointer in both.                                                *)
(***************************************************************************)
EXTENDS Integers, Sequences, FiniteSets, TLC

(***************************************************************************)
(* Bounds of the model.                                                    *)
(***************************************************************************)
\* number of lines the REPL session reads
MaxLines == 2
\* length of the longest array of the source texts
MaxArray == 2
\* largest index, of either sign, of the source texts
MaxIndex == 2
\* number of binary operators of the longest operator chain of the source texts
MaxChain == 3
\* number of pairs of the largest hash literal of the source texts
MaxPairs == 2
\* number of arguments of the longest call of the source texts
MaxArgs == 3
\* number of tokens of the longest of the token streams
MaxToks == 3

(***************************************************************************)
(* AST terms: the trees the parser builds, written as nested records.      *)
(* Load puts a term in the node store.                                     *)
(***************************************************************************)
NilT == [t |-> "nil"]
Id(n) == [t |-> "Identifier", name |-> n]
IntL(i) == [t |-> "IntegerLiteral", i |-> i, lit |-> ToString(i)]
BoolL(b) == [t |-> "Boolean", b |-> b]
StrL(s) == [t |-> "StringLiteral", s |-> s]
Pre(op, r) == [t |-> "PrefixExpression", op |-> op, right |-> r]
Inf(op, l, r) == [t |-> "InfixExpression", op |-> op, left |-> l, right |-> r]
Blk(ss) == [t |-> "BlockStatement", stmts |-> ss]
If(c, cons, alt) == [t |-> "IfExpression", cond |-> c, cons |-> cons, alt |-> alt]
Fn(ps, body) == [t |-> "FunctionLiteral", params |-> ps, body |-> body]
Mac(ps, body) == [t |-> "MacroLiteral", params |-> ps, body |-> body]
Call(f, as) == [t |-> "CallExpression", fn |-> f, args |-> as]
Arr(es) == [t |-> "ArrayLiteral", elems |-> es]
Idx(l, i) == [t |-> "IndexExpression", left |-> l, index |-> i]
Hsh(ps) == [t |-> "HashLiteral", pairs |-> ps]
Let(n, v) == [t |-> "LetStatement", name |-> n, value |-> v]
Ret(v) == [t |-> "ReturnStatement", value |-> v]
ES(e) == [t |-> "ExpressionStatement", expr |-> e]
Prog(ss) == [t |-> "Program", stmts |-> ss]

Leaf(term) == term.t \in {"Identifier", "IntegerLiteral", "Boolean", "StringLiteral"}

\* the children of a term, in the order the parser builds them
Kids(term) ==
  CASE term.t = "nil" -> <<>>
    [] Leaf(term) -> <<>>
    [] term.t = "PrefixExpression" -> <<term.right>>
    [] term.t = "InfixExpression" -> <<term.left, term.right>>
    [] term.t = "IndexExpression" -> <<term.left, term.index>>
    [] term.t = "IfExpression" -> <<term.cond, term.cons, term.alt>>
    [] term.t \in {"BlockStatement", "Program"} -> term.stmts
    [] term.t \in {"FunctionLiteral", "MacroLiteral"} -> term.params \o <<term.body>>
    [] term.t = "CallExpression" -> <<term.fn>> \o term.args
    [] term.t = "ArrayLiteral" -> term.elems
    [] term.t = "HashLiteral" ->
         [i \in 1..(2 * Len(term.pairs)) |->
            term.pairs[(i + 1) \div 2][IF i % 2 = 1 THEN 1 ELSE 2]]
    [] term.t \in {"LetStatement", "ReturnStatement"} -> <<term.value>>
    [] term.t = "ExpressionStatement" -> <<term.expr>>

\* the node of a term whose children are the nodes ids
NodeOf(term, ids) ==
  CASE Leaf(term) -> term
    [] term.t = "PrefixExpression" -> [t |-> term.t, op |-> term.op, right |-> ids[1]]
    [] term.t = "InfixExpression" ->
         [t |-> term.t, op |-> term.op, left |-> ids[1], right |-> ids[2]]
    [] term.t = "IndexExpression" -> [t |-> term.t, left |-> ids[1], index |-> ids[2]]
    [] term.t = "IfExpression" ->
         [t |-> term.t, cond |-> ids[1], cons |-> ids[2], alt |-> ids[3]]
    [] term.t \in {"BlockStatement", "Program"} -> [t |-> term.t, stmts |-> ids]
    [] term.t \in {"FunctionLiteral", "MacroLiteral"} ->
         [t |-> term.t, params |-> SubSeq(ids, 1, Len(ids) - 1), body |-> ids[Len(ids)]]
    [] term.t = "CallExpression" -> [t |-> term.t, fn |-> ids[1], args |-> Tail(ids)]
    [] term.t = "ArrayLiteral" -> [t |-> term.t, elems |-> ids]
    [] term.t = "HashLiteral" ->
         [t |-> term.t,
          pairs |-> [i \in 1..(Len(ids) \div 2) |-> <<ids[2 * i - 1], ids[2 * i]>>]]
    [] term.t = "LetStatement" -> [t |-> term.t, name |-> term.name, value |-> ids[1]]
    [] term.t = "ReturnStatement" -> [t |-> term.t, value |-> ids[1]]
    [] term.t = "ExpressionStatement" -> [t |-> term.t, expr |-> ids[1]]

RECURSIVE Size(_), SizeSeq(_), Nodes(_, _), NodesSeq(_, _), IdsSeq(_, _)
\* the number of nodes of a term
Size(term) == IF term.t = "nil" THEN 0 ELSE 1 + SizeSeq(Kids(term))
SizeSeq(terms) == IF terms = <<>> THEN 0 ELSE Size(Head(terms)) + SizeSeq(Tail(terms))

\* the index of the node of a term allocated after base nodes: its children
\* come first
Root(term, base) == IF term.t = "nil" THEN 0 ELSE base + Size(term)

\* the indices of the nodes of terms allocated one after the other
IdsSeq(terms, base) ==
  IF terms = <<>> THEN <<>>
  ELSE <<Root(Head(terms), base)>> \o IdsSeq(Tail(terms), base + Size(Head(terms)))

\* the nodes of a term allocated after base nodes
Nodes(term, base) ==
  IF term.t = "nil" THEN <<>>
  ELSE NodesSeq(Kids(term), base) \o <<NodeOf(term, IdsSeq(Kids(term), base))>>
NodesSeq(terms, base) ==
  IF terms = <<>> THEN <<>>
  ELSE Nodes(Head(terms), base) \o NodesSeq(Tail(terms), base + Size(Head(terms)))

\* the nodes of a term allocated in the store a; gives the root's index
Load(term, a) == [id |-> Root(term, Len(a)), ast |-> a \o Nodes(term, Len(a))]

RECURSIVE Tree(_, _), TreeSeq(_, _), TreePairs(_, _)
\* the term that the node at index id stands for in the store a
Tree(a, id) ==
  IF id = 0 THEN NilT
  ELSE LET n == a[id] IN
  CASE Leaf(n) -> n
    [] n.t = "PrefixExpression" -> Pre(n.op, Tree(a, n.right))
    [] n.t = "InfixExpression" -> Inf(n.op, Tree(a, n.left), Tree(a, n.right))
    [] n.t = "IndexExpression" -> Idx(Tree(a, n.left), Tree(a, n.index))
    [] n.t = "IfExpression" -> If(Tree(a, n.cond), Tree(a, n.cons), Tree(a, n.alt))
    [] n.t = "BlockStatement" -> Blk(TreeSeq(a, n.stmts))
    [] n.t = "Program" -> Prog(TreeSeq(a, n.stmts))
    [] n.t = "FunctionLiteral" -> Fn(TreeSeq(a, n.params), Tree(a, n.body))
    [] n.t = "MacroLiteral" -> Mac(TreeSeq(a, n.params), Tree(a, n.body))
    [] n.t = "CallExpression" -> Call(Tree(a, n.fn), TreeSeq(a, n.args))
    [] n.t = "ArrayLiteral" -> Arr(TreeSeq(a, n.elems))
    [] n.t = "HashLiteral" -> Hsh(TreePairs(a, n.pairs))
    [] n.t = "LetStatement" -> Let(n.name, Tree(a, n.value))
    [] n.t = "ReturnStatement" -> Ret(Tree(a, n.value))
    [] n.t = "ExpressionStatement" -> ES(Tree(a, n.expr))

TreeSeq(a, ids) ==
  IF ids = <<>> THEN <<>> ELSE <<Tree(a, Head(ids))>> \o TreeSeq(a, Tail(ids))

TreePairs(a, ps) ==
  IF ps = <<>> THEN <<>>
  ELSE << <<Tree(a, Head(ps)[1]), Tree(a, Head(ps)[2])>> >> \o TreePairs(a, Tail(ps))

(***************************************************************************)
(* String() of AST nodes.                                                  *)
(***************************************************************************)
RECURSIVE Join(_, _)
\* strings.Join
Join(strs, sep) ==
  IF strs = <<>> THEN ""
  ELSE IF Len(strs) = 1 THEN strs[1]
  ELSE strs[1] \o sep \o Join(Tail(strs), sep)

RECURSIVE Concat(_)
Concat(strs) == IF strs = <<>> THEN "" ELSE Head(strs) \o Concat(Tail(strs))

\* Token.Literal of the node's token
TokenLiteral(a, id) ==
  LET n == a[id] IN
  CASE n.t = "Identifier" -> n.name
    [] n.t = "IntegerLiteral" -> n.lit
    [] n.t = "Boolean" -> IF n.b THEN "true" ELSE "false"
    [] n.t = "StringLiteral" -> n.s
    [] n.t \in {"PrefixExpression", "InfixExpression"} -> n.op
    [] n.t = "IfExpression" -> "if"
    [] n.t = "FunctionLiteral" -> "fn"
    [] n.t = "MacroLiteral" -> "macro"
    [] n.t = "CallExpression" -> "("
    [] n.t \in {"ArrayLiteral", "IndexExpression"} -> "["
    [] n.t \in {"HashLiteral", "BlockStatement"} -> "{"
    [] n.t = "LetStatement" -> "let"
    [] n.t = "ReturnStatement" -> "return"

RECURSIVE CanString(_, _), NodeString(_, _), NodeStringExt(_, _)
\* String() does not dereference a nil node
CanString(a, id) ==
  IF id = 0 THEN FALSE
  ELSE LET n == a[id]
           opt(c) == c = 0 \/ CanString(a, c)
           all(cs) == \A i \in 1..Len(cs) : CanString(a, cs[i]) IN
  CASE Leaf(n) -> TRUE
    [] n.t = "PrefixExpression" -> CanString(a, n.right)
    [] n.t = "InfixExpression" -> CanString(a, n.left) /\ CanString(a, n.right)
    [] n.t = "IndexExpression" -> CanString(a, n.left) /\ CanString(a, n.index)
    [] n.t = "IfExpression" -> CanString(a, n.cond) /\ CanString(a, n.cons) /\ opt(n.alt)
    [] n.t \in {"BlockStatement", "Program"} -> all(n.stmts)
    [] n.t \in {"FunctionLiteral", "MacroLiteral"} -> all(n.params) /\ CanString(a, n.body)
    [] n.t = "CallExpression" -> CanString(a, n.fn) /\ all(n.args)
    [] n.t = "ArrayLiteral" -> all(n.elems)
    [] n.t = "HashLiteral" ->
         \A i \in 1..Len(n.pairs) : CanString(a, n.pairs[i][1]) /\ CanString(a, n.pairs[i][2])
    [] n.t = "LetStatement" -> opt(n.value)
    [] n.t = "ReturnStatement" -> opt(n.value)
    [] n.t = "ExpressionStatement" -> opt(n.expr)

\* String() of the node variants whose source is not part of src/
NodeStringExt(a, id) ==
  LET n == a[id]
      strs(cs) == [i \in 1..Len(cs) |-> NodeString(a, cs[i])] IN
  CASE n.t = "StringLiteral" -> n.s
    [] n.t = "ArrayLiteral" -> "[" \o Join(strs(n.elems), ", ") \o "]"
    [] n.t = "IndexExpression" ->
         "(" \o NodeString(a, n.left) \o "[" \o NodeString(a, n.index) \o "])"
    [] n.t = "HashLiteral" ->
         "{" \o Join([i \in 1..Len(n.pairs) |->
                NodeString(a, n.pairs[i][1]) \o ":" \o NodeString(a, n.pairs[i][2])], ", ") \o "}"
    [] n.t = "MacroLiteral" ->
         "macro(" \o Join(strs(n.params), ", ") \o ") " \o NodeString(a, n.body)

\* Node.String()
NodeString(a, id) ==
  LET n == a[id]
      strs(cs) == [i \in 1..Len(cs) |-> NodeString(a, cs[i])] IN
  CASE n.t = "Program" -> Concat(strs(n.stmts))
    [] n.t = "LetStatement" ->
         "let " \o n.name \o " = "
           \o (IF n.value # 0 THEN NodeString(a, n.value) ELSE "") \o ";"
    [] n.t = "ReturnStatement" ->
         "return " \o (IF n.value # 0 THEN NodeString(a, n.value) ELSE "") \o ";"
    [] n.t = "ExpressionStatement" ->
         IF n.expr # 0 THEN NodeString(a, n.expr) ELSE ""
    [] n.t = "BlockStatement" -> Concat(strs(n.stmts))
    [] n.t = "Identifier" -> n.name
    [] n.t = "Boolean" -> TokenLiteral(a, id)
    [] n.t = "IntegerLiteral" -> TokenLiteral(a, id)
    [] n.t = "PrefixExpression" -> "(" \o n.op \o NodeString(a, n.right) \o ")"
    [] n.t = "InfixExpression" ->
         "(" \o NodeString(a, n.left) \o " " \o n.op \o " " \o NodeString(a, n.right) \o ")"
    [] n.t = "IfExpression" ->
         "if" \o NodeString(a, n.cond) \o " " \o NodeString(a, n.cons)
           \o (IF n.alt # 0 THEN "else " \o NodeString(a, n.alt) ELSE "")
    [] n.t = "FunctionLiteral" ->
         "fn(" \o Join(strs(n.params), ", ") \o ") " \o NodeString(a, n.body)
    [] n.t = "CallExpression" ->
         NodeString(a, n.fn) \o "(" \o Join(strs(n.args), ", ") \o ")"
    [] OTHER -> NodeStringExt(a, id)

(***************************************************************************)
(* Values (package object).  k is Type(); (k |-> "nil") is Go's nil        *)
(* interface value and (k |-> "panic") a run-time panic that unwinds the   *)
(* whole call stack.  Values that Go compares by pointer carry the         *)
(* allocation number id.                                                   *)
(***************************************************************************)
NIL == [k |-> "nil"]
NULL == [k |-> "NULL"]
TrueObj == [k |-> "BOOLEAN", b |-> TRUE]
FalseObj == [k |-> "BOOLEAN", b |-> FALSE]
Integer(i) == [k |-> "INTEGER", i |-> i]
String(s) == [k |-> "STRING", s |-> s]
Error(msg) == [k |-> "ERROR", msg |-> msg]
Panic(msg) == [k |-> "panic", msg |-> msg]
Builtin(name) == [k |-> "BUILTIN", name |-> name]
ReturnValue(v, id) == [k |-> "RETURN_VALUE", value |-> v, id |-> id]
Array(es, id) == [k |-> "ARRAY", elems |-> es, id |-> id]
Hash(ps, id) == [k |-> "HASH", pairs |-> ps, id |-> id]
Function(ps, body, env, id) ==
  [k |-> "FUNCTION", params |-> ps, body |-> body, env |-> env, id |-> id]
Macro(ps, body, env, id) ==
  [k |-> "MACRO", params |-> ps, body |-> body, env |-> env, id |-> id]
Quote(node, id) == [k |-> "QUOTE", node |-> node, id |-> id]

IsPanic(obj) == obj.k = "panic"
NilDeref == Panic("invalid memory address or nil pointer dereference")
IndexRange == Panic("index out of range")

\* the names of the built-in table
BuiltinNames == {"len", "puts", "first", "last", "rest", "push"}

\* Hashable: Integer, Boolean and String implement HashKey()
Hashable(obj) == obj.k \in {"INTEGER", "BOOLEAN", "STRING"}

\* HashKey(): (Type, digest).  The 64-bit digest is kept as text: the
\* integer itself, 1 or 0 for a boolean, and for a string the FNV-1a sum,
\* which is written "fnv64a(s)" and so taken to be free of collisions.
\* a variant whose key is the digest alone
HashKeyUntyped(obj) ==
  CASE obj.k = "INTEGER" -> [Type |-> "", Value |-> ToString(obj.i)]
    [] obj.k = "BOOLEAN" -> [Type |-> "", Value |-> IF obj.b THEN "1" ELSE "0"]
    [] obj.k = "STRING" -> [Type |-> "", Value |-> "fnv64a(" \o obj.s \o ")"]

HashKey(obj) ==
  CASE obj.k = "INTEGER" -> [Type |-> "INTEGER", Value |-> ToString(obj.i)]
    [] obj.k = "BOOLEAN" -> [Type |-> "BOOLEAN", Value |-> IF obj.b THEN "1" ELSE "0"]
    [] obj.k = "STRING" -> [Type |-> "STRING", Value |-> "fnv64a(" \o obj.s \o ")"]

(***************************************************************************)
(* Environment (object/environment.go).                                    *)
(***************************************************************************)
EmptyStore == [n \in {} |-> NIL]

\* NewEnvironment: a new frame at the end of the store of frames
NewEnvironment(heap) == Append(heap, [store |-> EmptyStore, outer |-> 0])

\* a variant whose new frame has no outer frame
NewEnclosedEnvironmentDetached(heap, outer) == NewEnvironment(heap)

\* NewEnclosedEnvironment: a new frame whose outer is the given frame
NewEnclosedEnvironment(heap, outer) ==
  LET h == NewEnvironment(heap) IN [h EXCEPT ![Len(h)].outer = outer]

RECURSIVE Get(_, _, _)
\* Environment.Get: (obj, ok)
Get(heap, e, name) ==
  IF name \in DOMAIN heap[e].store THEN [obj |-> heap[e].store[name], ok |-> TRUE]
  ELSE IF heap[e].outer # 0 THEN Get(heap, heap[e].outer, name)
  ELSE [obj |-> NIL, ok |-> FALSE]

\* a variant that writes to the outer frame when only that frame binds name
SetThroughOuter(heap, e, name, val) ==
  LET o == heap[e].outer
      t == IF o # 0 /\ name \notin DOMAIN heap[e].store /\ name \in DOMAIN heap[o].store
           THEN o ELSE e IN
  [heap EXCEPT ![t].store =
     [n \in DOMAIN @ \cup {name} |-> IF n = name THEN val ELSE @[n]]]

\* Environment.Set: the heap after e.store[name] = val
Set(heap, e, name, val) ==
  [heap EXCEPT ![e].store =
     [n \in DOMAIN @ \cup {name} |-> IF n = name THEN val ELSE @[n]]]

(***************************************************************************)
(* Inspect().                                                              *)
(***************************************************************************)
RECURSIVE SetToSeq(_)
\* the members of a set in one fixed order
SetToSeq(S) ==
  IF S = {} THEN <<>> ELSE LET x == CHOOSE y \in S : TRUE IN <<x>> \o SetToSeq(S \ {x})

RECURSIVE CanInspect(_, _), Inspect(_, _)
\* Inspect() does not dereference nil
CanInspect(obj, a) ==
  CASE obj.k = "nil" -> FALSE
    [] obj.k = "RETURN_VALUE" -> CanInspect(obj.value, a)
    [] obj.k = "ARRAY" -> \A i \in 1..Len(obj.elems) : CanInspect(obj.elems[i], a)
    [] obj.k = "HASH" ->
         \A h \in DOMAIN obj.pairs :
            CanInspect(obj.pairs[h].Key, a) /\ CanInspect(obj.pairs[h].Value, a)
    [] obj.k \in {"FUNCTION", "MACRO"} ->
         (\A i \in 1..Len(obj.params) : CanString(a, obj.params[i]))
           /\ CanString(a, obj.body)
    [] obj.k = "QUOTE" -> CanString(a, obj.node)
    [] OTHER -> TRUE

\* Object.Inspect(); a Hash lists its pairs in one fixed order, Go's map
\* order being unspecified
Inspect(obj, a) ==
  CASE obj.k = "INTEGER" -> ToString(obj.i)
    [] obj.k = "BOOLEAN" -> IF obj.b THEN "true" ELSE "false"
    [] obj.k = "NULL" -> "null"
    [] obj.k = "STRING" -> obj.s
    [] obj.k = "RETURN_VALUE" -> Inspect(obj.value, a)
    [] obj.k = "ERROR" -> "ERROR: " \o obj.msg
    [] obj.k = "BUILTIN" -> "builtin function"
    [] obj.k = "ARRAY" ->
         "[" \o Join([i \in 1..Len(obj.elems) |-> Inspect(obj.elems[i], a)], ", ") \o "]"
    [] obj.k = "HASH" ->
         "{" \o Join(SetToSeq({Inspect(obj.pairs[h].Key, a) \o ": "
                                 \o Inspect(obj.pairs[h].Value, a) : h \in DOMAIN obj.pairs}),
                     ", ") \o "}"
    [] obj.k = "FUNCTION" ->
         "fn(" \o Join([i \in 1..Len(obj.params) |-> NodeString(a, obj.params[i])], ", ")
           \o ") {\n" \o NodeString(a, obj.body) \o "\n}"
    [] obj.k = "MACRO" ->
         "macro(" \o Join([i \in 1..Len(obj.params) |-> NodeString(a, obj.params[i])], ", ")
           \o ") {\n" \o NodeString(a, obj.body) \o "\n}"
    [] obj.k = "QUOTE" -> "QUOTE(" \o NodeString(a, obj.node) \o ")"


(***************************************************************************)
(* The evaluator.  An evaluation threads the interpreter's memory st:      *)
(*   ast   the node store            heap  the store of environment frames *)
(*   out   the lines written to standard output                            *)
(*   nobj  the number of objects allocated so far                          *)
(*   orc   the orders in which this run's ranges over Go maps iterate      *)
(*   oi    the number of such ranges done                                  *)
(* and gives a result (v |-> value, st |-> memory after).                   *)
(***************************************************************************)
Res(v, st) == [v |-> v, st |-> st]

\* number of map iteration orders one run draws; later ranges reuse them
OracleLen == 2

\* range over a Go map of n entries: the order of iteration is unspecified;
\* the run's oracle picks source order or its reverse
RangeOrder(n, st) ==
  IF st.orc[st.oi % OracleLen] THEN [i \in 1..n |-> n + 1 - i] ELSE [i \in 1..n |-> i]

Ranged(n, st) == IF n > 1 THEN [st EXCEPT !.oi = @ + 1] ELSE st

\* fmt.Sprintf("%d", n)
FmtInt(n) == ToString(n)

newError(msg) == Error(msg)

\* isError: nil is not an error
isError(obj) == obj.k = "ERROR"

\* an Error, which the caller hands upward, or a panic, which unwinds
Halts(obj) == IsPanic(obj) \/ isError(obj)

nativeBoolToBooleanObject(input) == IF input THEN TrueObj ELSE FalseObj

\* a variant for which the Integer 0 and the empty String are false too
isTruthyOfContent(obj) ==
  CASE obj = NULL -> FALSE
    [] obj = TrueObj -> TRUE
    [] obj = FalseObj -> FALSE
    [] obj = Integer(0) -> FALSE
    [] obj = String("") -> FALSE
    [] OTHER -> TRUE

isTruthy(obj) ==
  CASE obj = NULL -> FALSE
    [] obj = TrueObj -> TRUE
    [] obj = FalseObj -> FALSE
    [] OTHER -> TRUE

evalBangOperatorExpression(right) ==
  CASE right = TrueObj -> FalseObj
    [] right = FalseObj -> TrueObj
    [] right = NULL -> TrueObj
    [] OTHER -> FalseObj

evalMinusPrefixOperatorExpression(right) ==
  IF right = NIL THEN NilDeref
  ELSE IF right.k # "INTEGER" THEN newError("unknown operator: -" \o right.k)
  ELSE Integer(-right.i)

evalPrefixExpression(operator, right) ==
  CASE operator = "!" -> evalBangOperatorExpression(right)
    [] operator = "-" -> evalMinusPrefixOperatorExpression(right)
    [] OTHER -> IF right = NIL THEN NilDeref
                ELSE newError("unknown operator: " \o operator \o right.k)

\* Go's integer division truncates toward zero
TruncDiv(a, b) ==
  LET abs(x) == IF x < 0 THEN -x ELSE x
      q == abs(a) \div abs(b) IN
  IF (a < 0) = (b < 0) THEN q ELSE -q

evalIntegerInfixExpression(operator, left, right) ==
  LET leftVal == left.i
      rightVal == right.i IN
  CASE operator = "+" -> Integer(leftVal + rightVal)
    [] operator = "-" -> Integer(leftVal - rightVal)
    [] operator = "*" -> Integer(leftVal * rightVal)
    [] operator = "/" -> IF rightVal = 0 THEN Panic("integer divide by zero")
                         ELSE Integer(TruncDiv(leftVal, rightVal))
    [] operator = "<" -> nativeBoolToBooleanObject(leftVal < rightVal)
    [] operator = ">" -> nativeBoolToBooleanObject(leftVal > rightVal)
    [] operator = "==" -> nativeBoolToBooleanObject(leftVal = rightVal)
    [] operator = "!=" -> nativeBoolToBooleanObject(leftVal # rightVal)
    [] OTHER -> newError("unknown operator: " \o left.k \o " " \o operator \o " " \o right.k)

evalStringInfixExpression(operator, left, right) ==
  IF operator # "+"
  THEN newError("unknown operator: " \o left.k \o " " \o operator \o " " \o right.k)
  ELSE String(left.s \o right.s)

\* left == right on two interface values: the same pointer
SamePointer(left, right) ==
  /\ left.k = right.k
  /\ CASE left.k \in {"nil", "NULL"} -> TRUE
       [] left.k = "BOOLEAN" -> left.b = right.b
       [] left.k = "BUILTIN" -> left.name = right.name
       [] left.k \in {"INTEGER", "STRING", "ERROR"} -> FALSE
       [] OTHER -> left.id = right.id

\* a variant that looks at the kinds of the operands before the operator
evalInfixExpressionKindsFirst(operator, left, right) ==
  CASE left = NIL -> NilDeref
    [] right = NIL -> NilDeref
    [] left.k = "INTEGER" /\ right.k = "INTEGER" ->
         evalIntegerInfixExpression(operator, left, right)
    [] left.k = "STRING" /\ right.k = "STRING" ->
         evalStringInfixExpression(operator, left, right)
    [] left.k # right.k ->
         newError("type mismatch: " \o left.k \o " " \o operator \o " " \o right.k)
    [] operator = "==" -> nativeBoolToBooleanObject(SamePointer(left, right))
    [] operator = "!=" -> nativeBoolToBooleanObject(~SamePointer(left, right))
    [] OTHER ->
         newError("unknown operator: " \o left.k \o " " \o operator \o " " \o right.k)

evalInfixExpression(operator, left, right) ==
  CASE left = NIL -> NilDeref
    [] left.k \in {"INTEGER", "STRING"} /\ right = NIL -> NilDeref
    [] left.k = "INTEGER" /\ right.k = "INTEGER" ->
         evalIntegerInfixExpression(operator, left, right)
    [] left.k = "STRING" /\ right.k = "STRING" ->
         evalStringInfixExpression(operator, left, right)
    [] operator = "==" -> nativeBoolToBooleanObject(SamePointer(left, right))
    [] operator = "!=" -> nativeBoolToBooleanObject(~SamePointer(left, right))
    [] right = NIL -> NilDeref
    [] left.k # right.k ->
         newError("type mismatch: " \o left.k \o " " \o operator \o " " \o right.k)
    [] OTHER ->
         newError("unknown operator: " \o left.k \o " " \o operator \o " " \o right.k)

evalIdentifier(node, env, st) ==
  LET name == st.ast[node].name
      got == Get(st.heap, env, name) IN
  IF got.ok THEN got.obj
  ELSE IF name \in BuiltinNames THEN Builtin(name)
  ELSE newError("identifier not found: " \o name)

\* a variant where an index out of bounds is an Error
evalArrayIndexExpressionChecked(array, index) ==
  LET idx == index.i
      max == Len(array.elems) - 1 IN
  IF idx < 0 \/ idx > max THEN newError("index out of range") ELSE array.elems[idx + 1]

evalArrayIndexExpression(array, index) ==
  LET idx == index.i
      max == Len(array.elems) - 1 IN
  IF idx < 0 \/ idx > max THEN NULL ELSE array.elems[idx + 1]

evalHashIndexExpression(hash, index) ==
  IF index = NIL THEN NilDeref
  ELSE IF ~Hashable(index) THEN newError("unusable as hash key: " \o index.k)
  ELSE IF HashKey(index) \notin DOMAIN hash.pairs THEN NULL
  ELSE hash.pairs[HashKey(index)].Value

evalIndexExpression(left, index) ==
  CASE left = NIL -> NilDeref
    [] left.k = "ARRAY" /\ index = NIL -> NilDeref
    [] left.k = "ARRAY" /\ index.k = "INTEGER" -> evalArrayIndexExpression(left, index)
    [] left.k = "HASH" -> evalHashIndexExpression(left, index)
    [] OTHER -> newError("index operator not supported: " \o left.k)

\* a variant that hands a ReturnValue on as it is
unwrapReturnValueKept(obj) == obj

unwrapReturnValue(obj) == IF obj.k = "RETURN_VALUE" THEN obj.value ELSE obj

RECURSIVE putsLoop(_, _, _)
putsLoop(args, i, st) ==
  IF i > Len(args) THEN Res(NULL, st)
  ELSE IF ~CanInspect(args[i], st.ast) THEN Res(NilDeref, st)
  ELSE putsLoop(args, i + 1, [st EXCEPT !.out = Append(@, Inspect(args[i], st.ast))])

\* a variant whose push gives a copy of the array without the new element
applyBuiltinPushDrops(name, args, st) ==
  LET wrong(want) == newError("wrong number of arguments. got=" \o FmtInt(Len(args))
                                \o ", want=" \o want)
      mustArray == newError("argument to '" \o name \o "' must be ARRAY, got " \o args[1].k)
      arr == args[1].elems
      length == Len(arr) IN
  CASE name = "puts" -> putsLoop(args, 1, st)
    [] name = "len" ->
         IF Len(args) # 1 THEN Res(wrong("1"), st)
         ELSE CASE args[1].k = "ARRAY" -> Res(Integer(Len(args[1].elems)), st)
                [] args[1].k = "STRING" -> Res(Integer(Len(args[1].s)), st)
                [] args[1] = NIL -> Res(NilDeref, st)
                [] OTHER -> Res(newError("argument to 'len' not supported, got "
                                           \o args[1].k), st)
    [] name = "push" ->
         IF Len(args) # 2 THEN Res(wrong("2"), st)
         ELSE IF args[1] = NIL THEN Res(NilDeref, st)
         ELSE IF args[1].k # "ARRAY" THEN Res(mustArray, st)
         ELSE Res(Array(arr, st.nobj + 1), [st EXCEPT !.nobj = @ + 1])
    [] OTHER ->
         IF Len(args) # 1 THEN Res(wrong("1"), st)
         ELSE IF args[1] = NIL THEN Res(NilDeref, st)
         ELSE IF args[1].k # "ARRAY" THEN Res(mustArray, st)
         ELSE CASE name = "first" -> Res(IF length > 0 THEN arr[1] ELSE NULL, st)
                [] name = "last" -> Res(IF length > 0 THEN arr[length] ELSE NULL, st)
                [] name = "rest" ->
                     IF length > 0
                     THEN Res(Array(Tail(arr), st.nobj + 1), [st EXCEPT !.nobj = @ + 1])
                     ELSE Res(NULL, st)

\* builtins[name].Fn(args...); the backquotes of the messages are written '
applyBuiltin(name, args, st) ==
  LET wrong(want) == newError("wrong number of arguments. got=" \o FmtInt(Len(args))
                                \o ", want=" \o want)
      mustArray == newError("argument to '" \o name \o "' must be ARRAY, got " \o args[1].k)
      arr == args[1].elems
      length == Len(arr) IN
  CASE name = "puts" -> putsLoop(args, 1, st)
    [] name = "len" ->
         IF Len(args) # 1 THEN Res(wrong("1"), st)
         ELSE CASE args[1].k = "ARRAY" -> Res(Integer(Len(args[1].elems)), st)
                [] args[1].k = "STRING" -> Res(Integer(Len(args[1].s)), st)
                [] args[1] = NIL -> Res(NilDeref, st)
                [] OTHER -> Res(newError("argument to 'len' not supported, got "
                                           \o args[1].k), st)
    [] name = "push" ->
         IF Len(args) # 2 THEN Res(wrong("2"), st)
         ELSE IF args[1] = NIL THEN Res(NilDeref, st)
         ELSE IF args[1].k # "ARRAY" THEN Res(mustArray, st)
         ELSE Res(Array(Append(arr, args[2]), st.nobj + 1), [st EXCEPT !.nobj = @ + 1])
    [] OTHER ->
         IF Len(args) # 1 THEN Res(wrong("1"), st)
         ELSE IF args[1] = NIL THEN Res(NilDeref, st)
         ELSE IF args[1].k # "ARRAY" THEN Res(mustArray, st)
         ELSE CASE name = "first" -> Res(IF length > 0 THEN arr[1] ELSE NULL, st)
                [] name = "last" -> Res(IF length > 0 THEN arr[length] ELSE NULL, st)
                [] name = "rest" ->
                     IF length > 0
                     THEN Res(Array(Tail(arr), st.nobj + 1), [st EXCEPT !.nobj = @ + 1])
                     ELSE Res(NULL, st)

\* the frame of a call: parameter i bound to args[i] in a frame enclosed by
\* the function's own environment; (env, st), or a panic when the arguments
\* run out
extendFunctionEnv(fn, args, st) ==
  LET h0 == NewEnclosedEnvironment(st.heap, fn.env)
      env == Len(h0)
      bind[i \in 0..Len(fn.params)] ==
        IF i = 0 THEN h0 ELSE Set(bind[i - 1], env, st.ast[fn.params[i]].name, args[i]) IN
  IF Len(args) < Len(fn.params)
  THEN [env |-> 0, st |-> [st EXCEPT !.heap = bind[Len(args)]]]
  ELSE [env |-> env, st |-> [st EXCEPT !.heap = bind[Len(fn.params)]]]

\* convertObjectToASTNode: (id, ast), the node of an unquoted value
convertObjectToASTNode(obj, a) ==
  CASE obj.k = "INTEGER" ->
         [id |-> Len(a) + 1,
          ast |-> Append(a, [t |-> "IntegerLiteral", i |-> obj.i, lit |-> FmtInt(obj.i)])]
    [] obj.k = "BOOLEAN" ->
         [id |-> Len(a) + 1, ast |-> Append(a, [t |-> "Boolean", b |-> obj.b])]
    [] obj.k = "QUOTE" -> [id |-> obj.node, ast |-> a]
    [] OTHER -> [id |-> 0, ast |-> a]

\* the type assertions of Modify: node.(Expression), node.(Statement), ...
IsStatement(a, id) ==
  id # 0 /\ a[id].t \in {"LetStatement", "ReturnStatement", "ExpressionStatement",
                          "BlockStatement"}
IsExpression(a, id) == id # 0 /\ a[id].t # "Program" /\ ~IsStatement(a, id)
AsExpression(a, id) == IF IsExpression(a, id) THEN id ELSE 0
AsStatement(a, id) == IF IsStatement(a, id) THEN id ELSE 0
AsType(a, id, t) == IF id # 0 /\ a[id].t = t THEN id ELSE 0

isUnquoteCall(a, node) ==
  /\ node # 0
  /\ a[node].t = "CallExpression"
  /\ a[node].fn # 0
  /\ TokenLiteral(a, a[node].fn) = "unquote"

\* isMacroCall: (macro, ok)
isMacroCall(exp, env, st) ==
  LET f == st.ast[exp].fn
      got == Get(st.heap, env, st.ast[f].name) IN
  IF f = 0 \/ st.ast[f].t # "Identifier" THEN [macro |-> NIL, ok |-> FALSE]
  ELSE IF ~got.ok THEN [macro |-> NIL, ok |-> FALSE]
  ELSE IF got.obj.k # "MACRO" THEN [macro |-> NIL, ok |-> FALSE]
  ELSE [macro |-> got.obj, ok |-> TRUE]

\* quoteArgs: each argument expression of the call in a Quote, unevaluated
quoteArgs(exp, st) ==
  [i \in 1..Len(st.ast[exp].args) |-> Quote(st.ast[exp].args[i], st.nobj + i)]

\* extendMacroEnv, as extendFunctionEnv
extendMacroEnv(macro, args, st) == extendFunctionEnv(macro, args, st)

\* a variant whose Function holds a copy of the current frame
evalFunctionLiteralCopied(node, env, st) ==
  LET params == st.ast[node].params
      body == st.ast[node].body
      h == Append(st.heap, st.heap[env]) IN
  Res(Function(params, body, Len(h), st.nobj + 1),
      [st EXCEPT !.nobj = @ + 1, !.heap = h])

\* the FunctionLiteral case of Eval: a Function that refers to the current
\* environment
evalFunctionLiteral(node, env, st) ==
  LET params == st.ast[node].params
      body == st.ast[node].body IN
  Res(Function(params, body, env, st.nobj + 1), [st EXCEPT !.nobj = @ + 1])

RECURSIVE Eval(_, _, _), progLoop(_, _, _, _, _, _), blockLoop(_, _, _, _, _, _),
          evalExpressions(_, _, _, _, _), applyFunction(_, _, _),
          hashLoop(_, _, _, _, _, _), Modify(_, _, _), modifySeq(_, _, _, _, _, _),
          modifyPairs(_, _, _, _, _, _, _), ApplyModifier(_, _, _)

\* a variant that evaluates the expressions after the one that gave an Error
evalExpressionsPastError(exps, i, env, st, acc) ==
  IF i > Len(exps) THEN [vs |-> acc, st |-> st, halt |-> FALSE]
  ELSE LET r == Eval(exps[i], env, st)
           rest == evalExpressions(exps, i + 1, env, r.st, Append(acc, r.v)) IN
       IF IsPanic(r.v) THEN [vs |-> <<r.v>>, st |-> r.st, halt |-> TRUE]
       ELSE IF isError(r.v) THEN [vs |-> <<r.v>>, st |-> rest.st, halt |-> TRUE]
       ELSE rest

\* a variant that takes an Error into the list as it takes any other object
evalExpressionsCollected(exps, i, env, st, acc) ==
  IF i > Len(exps) THEN [vs |-> acc, st |-> st, halt |-> FALSE]
  ELSE LET r == Eval(exps[i], env, st) IN
       IF IsPanic(r.v) THEN [vs |-> <<r.v>>, st |-> r.st, halt |-> TRUE]
       ELSE evalExpressions(exps, i + 1, env, r.st, Append(acc, r.v))

\* a variant of evalProgram's loop that goes on after an Error
progLoopPastError(program, i, n, env, st, result) ==
  IF i > n THEN Res(result, st)
  ELSE LET r == Eval(st.ast[program].stmts[i], env, st) IN
       CASE IsPanic(r.v) -> r
         [] r.v.k = "RETURN_VALUE" -> Res(r.v.value, r.st)
         [] OTHER -> progLoop(program, i + 1, n, env, r.st, r.v)

\* evalProgram's loop from statement i on, n statements in all
progLoop(program, i, n, env, st, result) ==
  IF i > n THEN Res(result, st)
  ELSE LET r == Eval(st.ast[program].stmts[i], env, st) IN
       CASE IsPanic(r.v) -> r
         [] r.v.k = "RETURN_VALUE" -> Res(r.v.value, r.st)
         [] r.v.k = "ERROR" -> r
         [] OTHER -> progLoop(program, i + 1, n, env, r.st, r.v)

evalProgram(program, env, st) ==
  progLoop(program, 1, Len(st.ast[program].stmts), env, st, NIL)

\* evalBlockStatement's loop
blockLoop(block, i, n, env, st, result) ==
  IF i > n THEN Res(result, st)
  ELSE LET r == Eval(st.ast[block].stmts[i], env, st) IN
       IF IsPanic(r.v) THEN r
       ELSE IF r.v # NIL /\ r.v.k \in {"RETURN_VALUE", "ERROR"} THEN r
       ELSE blockLoop(block, i + 1, n, env, r.st, r.v)

\* a variant that unwraps the ReturnValue of the block as evalProgram does
evalBlockStatementUnwrapped(block, env, st) ==
  IF block = 0 THEN Res(NilDeref, st)
  ELSE LET r == blockLoop(block, 1, Len(st.ast[block].stmts), env, st, NIL) IN
       Res(unwrapReturnValue(r.v), r.st)

evalBlockStatement(block, env, st) ==
  IF block = 0 THEN Res(NilDeref, st)
  ELSE blockLoop(block, 1, Len(st.ast[block].stmts), env, st, NIL)

evalIfExpression(ie, env, st) ==
  LET c == Eval(st.ast[ie].cond, env, st) IN
  IF Halts(c.v) THEN c
  ELSE IF isTruthy(c.v) THEN Eval(c.st.ast[ie].cons, env, c.st)
  ELSE IF c.st.ast[ie].alt # 0 THEN Eval(c.st.ast[ie].alt, env, c.st)
  ELSE Res(NULL, c.st)

\* evalExpressions: the values of exps[i..] after acc; (vs, st, halt) where
\* halt is TRUE when vs is the one Error or panic that stopped the list
evalExpressions(exps, i, env, st, acc) ==
  IF i > Len(exps) THEN [vs |-> acc, st |-> st, halt |-> FALSE]
  ELSE LET r == Eval(exps[i], env, st) IN
       IF Halts(r.v) THEN [vs |-> <<r.v>>, st |-> r.st, halt |-> TRUE]
       ELSE evalExpressions(exps, i + 1, env, r.st, Append(acc, r.v))

applyFunction(fn, args, st) ==
  CASE fn.k = "FUNCTION" ->
         LET x == extendFunctionEnv(fn, args, st) IN
         IF x.env = 0 THEN Res(IndexRange, x.st)
         ELSE LET r == Eval(fn.body, x.env, x.st) IN
              Res(unwrapReturnValue(r.v), r.st)
    [] fn.k = "BUILTIN" -> applyBuiltin(fn.name, args, st)
    [] fn = NIL -> Res(NilDeref, st)
    [] OTHER -> Res(newError("not a function: " \o fn.k), st)

\* evalHashLiteral's loop over the pairs in the order ord
hashLoop(pairs, ord, i, env, st, acc) ==
  IF i > Len(pairs) THEN Res(Hash(acc, st.nobj + 1), [st EXCEPT !.nobj = @ + 1])
  ELSE LET key == Eval(pairs[ord[i]][1], env, st)
           value == Eval(pairs[ord[i]][2], env, key.st)
           hashed == HashKey(key.v) IN
       IF Halts(key.v) THEN key
       ELSE IF key.v = NIL THEN Res(NilDeref, key.st)
       ELSE IF ~Hashable(key.v)
       THEN Res(newError("unusable as hash key: " \o key.v.k), key.st)
       ELSE IF Halts(value.v) THEN value
       ELSE hashLoop(pairs, ord, i + 1, env, value.st,
                     [h \in DOMAIN acc \cup {hashed} |->
                        IF h = hashed THEN [Key |-> key.v, Value |-> value.v] ELSE acc[h]])

evalHashLiteral(node, env, st) ==
  LET pairs == st.ast[node].pairs IN
  hashLoop(pairs, RangeOrder(Len(pairs), st), 1, env, Ranged(Len(pairs), st), <<>>)

\* evalUnquoteCalls: the quoted node after Modify with the unquote modifier
evalUnquoteCalls(quoted, env, st) == Modify(quoted, [kind |-> "unquote", env |-> env], st)

quote(node, env, st) ==
  LET m == evalUnquoteCalls(node, env, st) IN
  IF m.halt # NIL THEN Res(m.halt, m.st)
  ELSE Res(Quote(m.id, m.st.nobj + 1), [m.st EXCEPT !.nobj = @ + 1])

Eval(node, env, st) ==
  IF node = 0 THEN Res(NIL, st)
  ELSE LET n == st.ast[node] IN
  CASE n.t = "Program" -> evalProgram(node, env, st)
    [] n.t = "BlockStatement" -> evalBlockStatement(node, env, st)
    [] n.t = "ExpressionStatement" -> Eval(n.expr, env, st)
    [] n.t = "ReturnStatement" ->
         LET val == Eval(n.value, env, st) IN
         IF Halts(val.v) THEN val
         ELSE Res(ReturnValue(val.v, val.st.nobj + 1), [val.st EXCEPT !.nobj = @ + 1])
    [] n.t = "LetStatement" ->
         LET val == Eval(n.value, env, st) IN
         IF Halts(val.v) THEN val
         ELSE Res(NIL, [val.st EXCEPT
                          !.heap = Set(@, env, val.st.ast[node].name, val.v)])
    [] n.t = "IntegerLiteral" -> Res(Integer(n.i), st)
    [] n.t = "StringLiteral" -> Res(String(n.s), st)
    [] n.t = "Boolean" -> Res(nativeBoolToBooleanObject(n.b), st)
    [] n.t = "PrefixExpression" ->
         LET right == Eval(n.right, env, st) IN
         IF Halts(right.v) THEN right
         ELSE Res(evalPrefixExpression(right.st.ast[node].op, right.v), right.st)
    [] n.t = "InfixExpression" ->
         LET left == Eval(n.left, env, st)
             right == Eval(left.st.ast[node].right, env, left.st) IN
         IF Halts(left.v) THEN left
         ELSE IF Halts(right.v) THEN right
         ELSE Res(evalInfixExpression(right.st.ast[node].op, left.v, right.v), right.st)
    [] n.t = "IfExpression" -> evalIfExpression(node, env, st)
    [] n.t = "Identifier" -> Res(evalIdentifier(node, env, st), st)
    [] n.t = "FunctionLiteral" -> evalFunctionLiteral(node, env, st)
    [] n.t = "CallExpression" ->
         IF n.fn = 0 THEN Res(NilDeref, st)
         ELSE IF TokenLiteral(st.ast, n.fn) = "quote"
         THEN IF n.args = <<>> THEN Res(IndexRange, st) ELSE quote(n.args[1], env, st)
         ELSE LET function == Eval(n.fn, env, st)
                  args == evalExpressions(function.st.ast[node].args, 1, env,
                                          function.st, <<>>) IN
              IF Halts(function.v) THEN function
              ELSE IF args.halt THEN Res(args.vs[1], args.st)
              ELSE applyFunction(function.v, args.vs, args.st)
    [] n.t = "ArrayLiteral" ->
         LET elements == evalExpressions(n.elems, 1, env, st, <<>>) IN
         IF elements.halt THEN Res(elements.vs[1], elements.st)
         ELSE Res(Array(elements.vs, elements.st.nobj + 1),
                  [elements.st EXCEPT !.nobj = @ + 1])
    [] n.t = "IndexExpression" ->
         LET left == Eval(n.left, env, st)
             index == Eval(left.st.ast[node].index, env, left.st) IN
         IF Halts(left.v) THEN left
         ELSE IF Halts(index.v) THEN index
         ELSE Res(evalIndexExpression(left.v, index.v), index.st)
    [] n.t = "HashLiteral" -> evalHashLiteral(node, env, st)
    [] OTHER -> Res(NIL, st)


(***************************************************************************)
(* ast.Modify.  The modifier closures of the callers are (kind, env):      *)
(* kind "unquote" is the function literal of evalUnquoteCalls, kind        *)
(* "expand" the one of ExpandMacros.  A result is (id, st, halt): the node *)
(* returned, the memory after, and the panic that ended the walk or NIL.   *)
(***************************************************************************)
Same(node, st) == [id |-> node, st |-> st, halt |-> NIL]
Halted(p, st) == [id |-> 0, st |-> st, halt |-> p]

Cast(as, a, id) ==
  CASE as = "Expression" -> AsExpression(a, id)
    [] as = "Statement" -> AsStatement(a, id)
    [] OTHER -> AsType(a, id, as)

\* node.field, _ = Modify(node.field, modifier).(as)
modifyChild(node, field, as, mod, st) ==
  LET m == Modify(st.ast[node][field], mod, st) IN
  IF m.halt # NIL THEN m
  ELSE Same(node, [m.st EXCEPT !.ast[node][field] = Cast(as, m.st.ast, m.id)])

\* for i := range node.field { node.field[i], _ = Modify(node.field[i], modifier).(as) }
modifySeq(node, field, as, i, mod, st) ==
  IF i > Len(st.ast[node][field]) THEN Same(node, st)
  ELSE LET m == Modify(st.ast[node][field][i], mod, st) IN
       IF m.halt # NIL THEN m
       ELSE modifySeq(node, field, as, i + 1, mod,
                      [m.st EXCEPT !.ast[node][field][i] = Cast(as, m.st.ast, m.id)])

\* newPairs[newKey] = newVal
PutPair(newPairs, newKey, newVal) ==
  IF \E j \in 1..Len(newPairs) : newPairs[j][1] = newKey
  THEN [j \in 1..Len(newPairs) |->
          IF newPairs[j][1] = newKey THEN <<newKey, newVal>> ELSE newPairs[j]]
  ELSE Append(newPairs, <<newKey, newVal>>)

\* the HashLiteral case: a new map of the rewritten keys and values
modifyPairs(node, pairs, ord, i, mod, st, newPairs) ==
  IF i > Len(pairs) THEN Same(node, [st EXCEPT !.ast[node].pairs = newPairs])
  ELSE LET k == Modify(pairs[ord[i]][1], mod, st)
           v == Modify(pairs[ord[i]][2], mod, k.st) IN
       IF k.halt # NIL THEN k
       ELSE IF v.halt # NIL THEN v
       ELSE modifyPairs(node, pairs, ord, i + 1, mod, v.st,
                        PutPair(newPairs, AsExpression(v.st.ast, k.id),
                                AsExpression(v.st.ast, v.id)))

\* the modifier of evalUnquoteCalls
unquoteModifier(node, env, st) ==
  LET call == st.ast[node]
      unquoted == Eval(call.args[1], env, st)
      c == convertObjectToASTNode(unquoted.v, unquoted.st.ast) IN
  IF ~isUnquoteCall(st.ast, node) THEN Same(node, st)
  ELSE IF Len(call.args) # 1 THEN Same(node, st)
  ELSE IF IsPanic(unquoted.v) THEN Halted(unquoted.v, unquoted.st)
  ELSE [id |-> c.id, st |-> [unquoted.st EXCEPT !.ast = c.ast], halt |-> NIL]

\* a variant that evaluates the arguments of the call before quoting them
expandModifierArgsEvaluated(node, env, st) ==
  LET m == isMacroCall(node, env, st)
      ev == evalExpressions(st.ast[node].args, 1, env, st, <<>>)
      args == quoteArgs(node, ev.st)
      x == extendMacroEnv(m.macro, args, [ev.st EXCEPT !.nobj = @ + Len(args)])
      evaluated == Eval(m.macro.body, x.env, x.st) IN
  IF node = 0 \/ st.ast[node].t # "CallExpression" THEN Same(node, st)
  ELSE IF ~m.ok THEN Same(node, st)
  ELSE IF x.env = 0 THEN Halted(IndexRange, x.st)
  ELSE IF IsPanic(evaluated.v) THEN Halted(evaluated.v, evaluated.st)
  ELSE IF evaluated.v.k # "QUOTE"
  THEN Halted(Panic("we only support returning AST-nodes from macros"), evaluated.st)
  ELSE [id |-> evaluated.v.node, st |-> evaluated.st, halt |-> NIL]

\* the modifier of ExpandMacros
expandModifier(node, env, st) ==
  LET m == isMacroCall(node, env, st)
      args == quoteArgs(node, st)
      x == extendMacroEnv(m.macro, args, [st EXCEPT !.nobj = @ + Len(args)])
      evaluated == Eval(m.macro.body, x.env, x.st) IN
  IF node = 0 \/ st.ast[node].t # "CallExpression" THEN Same(node, st)
  ELSE IF ~m.ok THEN Same(node, st)
  ELSE IF x.env = 0 THEN Halted(IndexRange, x.st)
  ELSE IF IsPanic(evaluated.v) THEN Halted(evaluated.v, evaluated.st)
  ELSE IF evaluated.v.k # "QUOTE"
  THEN Halted(Panic("we only support returning AST-nodes from macros"), evaluated.st)
  ELSE [id |-> evaluated.v.node, st |-> evaluated.st, halt |-> NIL]

\* a variant that hands the node it got from the modifier to the modifier once more
ApplyModifierTwice(mod, node, st) ==
  LET once == IF mod.kind = "unquote" THEN unquoteModifier(node, mod.env, st)
              ELSE expandModifier(node, mod.env, st) IN
  IF once.halt # NIL \/ once.id = node THEN once
  ELSE IF mod.kind = "unquote" THEN unquoteModifier(once.id, mod.env, once.st)
  ELSE expandModifier(once.id, mod.env, once.st)

ApplyModifier(mod, node, st) ==
  IF mod.kind = "unquote" THEN unquoteModifier(node, mod.env, st)
  ELSE expandModifier(node, mod.env, st)

\* infix and index expressions: the first child, then the second
modifyTwo(node, f1, f2, mod, st) ==
  LET a == modifyChild(node, f1, "Expression", mod, st) IN
  IF a.halt # NIL THEN a ELSE modifyChild(node, f2, "Expression", mod, a.st)

Modify(node, mod, st) ==
  LET n == st.ast[node]
      kids ==
        CASE n.t \in {"Program", "BlockStatement"} ->
               modifySeq(node, "stmts", "Statement", 1, mod, st)
          [] n.t = "ExpressionStatement" -> modifyChild(node, "expr", "Expression", mod, st)
          [] n.t = "InfixExpression" -> modifyTwo(node, "left", "right", mod, st)
          [] n.t = "PrefixExpression" -> modifyChild(node, "right", "Expression", mod, st)
          [] n.t = "IndexExpression" -> modifyTwo(node, "left", "index", mod, st)
          [] n.t = "IfExpression" ->
               LET c == modifyChild(node, "cond", "Expression", mod, st)
                   x == modifyChild(node, "cons", "BlockStatement", mod, c.st) IN
               IF c.halt # NIL THEN c
               ELSE IF x.halt # NIL THEN x
               ELSE IF x.st.ast[node].alt # 0
               THEN modifyChild(node, "alt", "BlockStatement", mod, x.st)
               ELSE x
          [] n.t \in {"ReturnStatement", "LetStatement"} ->
               modifyChild(node, "value", "Expression", mod, st)
          [] n.t = "FunctionLiteral" ->
               LET ps == modifySeq(node, "params", "Identifier", 1, mod, st) IN
               IF ps.halt # NIL THEN ps
               ELSE modifyChild(node, "body", "BlockStatement", mod, ps.st)
          [] n.t = "ArrayLiteral" -> modifySeq(node, "elems", "Expression", 1, mod, st)
          [] n.t = "HashLiteral" ->
               modifyPairs(node, n.pairs, RangeOrder(Len(n.pairs), st), 1, mod,
                           Ranged(Len(n.pairs), st), <<>>)
          [] OTHER -> Same(node, st) IN
  IF node = 0 THEN ApplyModifier(mod, node, st)
  ELSE IF kids.halt # NIL THEN kids
  ELSE ApplyModifier(mod, node, kids.st)

(***************************************************************************)
(* The macro pass.                                                         *)
(***************************************************************************)
isMacroDefinition(a, node) ==
  /\ node # 0
  /\ a[node].t = "LetStatement"
  /\ a[node].value # 0
  /\ a[a[node].value].t = "MacroLiteral"

\* addMacro: the Macro of the statement's literal bound under its name in env
addMacro(stmt, env, st) ==
  LET lit == st.ast[st.ast[stmt].value]
      macro == Macro(lit.params, lit.body, env, st.nobj + 1) IN
  [st EXCEPT !.heap = Set(@, env, st.ast[stmt].name, macro), !.nobj = @ + 1]

\* append(s[:i], s[i+1:]...), i counted from 0
RemoveAt(stmts, i) == SubSeq(stmts, 1, i) \o SubSeq(stmts, i + 2, Len(stmts))

RECURSIVE defineScan(_, _, _, _, _), defineRemove(_, _, _),
          defineRemoveAscending(_, _, _)
\* the first loop of DefineMacros: (definitions, st)
defineScan(program, i, env, st, definitions) ==
  IF i > Len(st.ast[program].stmts) THEN [definitions |-> definitions, st |-> st]
  ELSE IF isMacroDefinition(st.ast, st.ast[program].stmts[i])
  THEN defineScan(program, i + 1, env, addMacro(st.ast[program].stmts[i], env, st),
                  Append(definitions, i - 1))
  ELSE defineScan(program, i + 1, env, st, definitions)

\* a variant that removes the lowest index first
defineRemoveAscending(stmts, definitions, i) ==
  IF i < 0 THEN stmts
  ELSE defineRemoveAscending(RemoveAt(stmts, definitions[Len(definitions) - i]),
                             definitions, i - 1)

\* the second loop: for i := len(definitions) - 1; i >= 0; i = i - 1
defineRemove(stmts, definitions, i) ==
  IF i < 0 THEN stmts
  ELSE defineRemove(RemoveAt(stmts, definitions[i + 1]), definitions, i - 1)

DefineMacros(program, env, st) ==
  LET scan == defineScan(program, 1, env, st, <<>>) IN
  [scan.st EXCEPT !.ast[program].stmts =
     defineRemove(@, scan.definitions, Len(scan.definitions) - 1)]

ExpandMacros(program, env, st) == Modify(program, [kind |-> "expand", env |-> env], st)


(***************************************************************************)
(* The lines the session reads: the programs ParseProgram builds for them. *)
(***************************************************************************)
Puts(str) == ES(Call(Id("puts"), <<StrL(str)>>))
LetFn(name, ps, body) == Let(name, Fn(ps, Blk(body)))
LetMacro(name, ps, body) == Let(name, Mac(ps, Blk(body)))
CallId(name, as) == Call(Id(name), as)

\* if (10 > 1) { if (10 > 1) { return 10; } return 1; }
LNestedReturn ==
  Prog(<<ES(If(Inf(">", IntL(10), IntL(1)),
               Blk(<<ES(If(Inf(">", IntL(10), IntL(1)), Blk(<<Ret(IntL(10))>>), NilT)),
                     Ret(IntL(1))>>),
               NilT))>>)

\* if (true) { if (true) { return 10; } puts("inner"); return 1; } puts("outer");
LReturnSkips ==
  Prog(<<ES(If(BoolL(TRUE),
               Blk(<<ES(If(BoolL(TRUE), Blk(<<Ret(IntL(10))>>), NilT)),
                     Puts("inner"), Ret(IntL(1))>>),
               NilT)),
         Puts("outer")>>)

\* let f = fn() { return 1; puts("dead"); }; f(); 2
LFnReturn ==
  Prog(<<LetFn("f", <<>>, <<Ret(IntL(1)), Puts("dead")>>),
         ES(CallId("f", <<>>)), ES(IntL(2))>>)

\* let g = fn() { missing; puts("dead"); }; g(); puts("after");
LFnError ==
  Prog(<<LetFn("g", <<>>, <<ES(Id("missing")), Puts("dead")>>),
         ES(CallId("g", <<>>)), Puts("after")>>)

\* let a = 1; -true; let b = 2; puts("no");
LErrorStops ==
  Prog(<<Let("a", IntL(1)), ES(Pre("-", BoolL(TRUE))), Let("b", IntL(2)), Puts("no")>>)

\* puts("first", [puts("in"), 1 + true, puts("later")], puts("last"));
LErrorInArgs ==
  Prog(<<ES(CallId("puts",
              <<StrL("first"),
                Arr(<<CallId("puts", <<StrL("in")>>), Inf("+", IntL(1), BoolL(TRUE)),
                      CallId("puts", <<StrL("later")>>)>>),
                CallId("puts", <<StrL("last")>>)>>))>>)

\* let newAdder = fn(x) { fn(y) { x + y } }; let addTwo = newAdder(2); addTwo(3);
LAdder ==
  Prog(<<LetFn("newAdder", <<Id("x")>>,
               <<ES(Fn(<<Id("y")>>, Blk(<<ES(Inf("+", Id("x"), Id("y")))>>)))>>),
         Let("addTwo", CallId("newAdder", <<IntL(2)>>)),
         ES(CallId("addTwo", <<IntL(3)>>))>>)

\* let x = 1; let f = fn() { x }; let g = fn(y) { let x = 2; f() }; g(3)
LLexical ==
  Prog(<<Let("x", IntL(1)),
         LetFn("f", <<>>, <<ES(Id("x"))>>),
         LetFn("g", <<Id("y")>>, <<Let("x", IntL(2)), ES(CallId("f", <<>>))>>),
         ES(CallId("g", <<IntL(3)>>))>>)

\* let x = 1; let h = fn(y) { let x = 2; let y = x; y }; h(0); x
LLocalLet ==
  Prog(<<Let("x", IntL(1)),
         LetFn("h", <<Id("y")>>, <<Let("x", IntL(2)), Let("y", Id("x")), ES(Id("y"))>>),
         ES(CallId("h", <<IntL(0)>>)), ES(Id("x"))>>)

\* let k = fn() { y }; let y = 7; k()
LLateBinding ==
  Prog(<<LetFn("k", <<>>, <<ES(Id("y"))>>), Let("y", IntL(7)), ES(CallId("k", <<>>))>>)

\* let fact = fn(n) { if (n < 1) { 1 } else { n * fact(n - 1) } }; fact(1)
LFact ==
  Prog(<<LetFn("fact", <<Id("n")>>,
               <<ES(If(Inf("<", Id("n"), IntL(1)),
                       Blk(<<ES(IntL(1))>>),
                       Blk(<<ES(Inf("*", Id("n"),
                                    CallId("fact", <<Inf("-", Id("n"), IntL(1))>>)))>>)))>>),
         ES(CallId("fact", <<IntL(1)>>))>>)

\* let y = 8;
LLetY == Prog(<<Let("y", IntL(8))>>)
\* let x = 9;
LLetX == Prog(<<Let("x", IntL(9))>>)
\* k()
LCallK == Prog(<<ES(CallId("k", <<>>))>>)
\* g(4)
LCallG == Prog(<<ES(CallId("g", <<IntL(4)>>))>>)
\* x
LX == Prog(<<ES(Id("x"))>>)
\* let y = 8; k()
LRebind == Prog(<<Let("y", IntL(8)), ES(CallId("k", <<>>))>>)

\* let m = macro(a) { quote(unquote(a) + 1) };
MDef == LetMacro("m", <<Id("a")>>,
                 <<ES(CallId("quote", <<Inf("+", CallId("unquote", <<Id("a")>>), IntL(1))>>))>>)
LDefM == Prog(<<MDef>>)
\* let m = macro(a) { quote(unquote(a) + 1) }; m(1)
LDefMCall == Prog(<<MDef, ES(CallId("m", <<IntL(1)>>))>>)
\* let m = macro(a) { quote(unquote(a) + 1) }; m(1); m(2)
LDefMTwice == Prog(<<MDef, ES(CallId("m", <<IntL(1)>>)), ES(CallId("m", <<IntL(2)>>))>>)
\* m(2)
LCallM == Prog(<<ES(CallId("m", <<IntL(2)>>))>>)
\* m(missing); m(puts("arg")); m(1 / 0)
LMacroArgs ==
  Prog(<<ES(CallId("m", <<Id("missing")>>)),
         ES(CallId("m", <<CallId("puts", <<StrL("arg")>>)>>)),
         ES(CallId("m", <<Inf("/", IntL(1), IntL(0))>>))>>)

\* let unless = macro(cond, cons, alt) {
\*   quote(if (!(unquote(cond))) { unquote(cons) } else { unquote(alt) }); };
\* unless(10 > 5, puts("not greater"), puts("greater"));
LUnless ==
  Prog(<<LetMacro("unless", <<Id("cond"), Id("cons"), Id("alt")>>,
           <<ES(CallId("quote",
                  <<If(Pre("!", CallId("unquote", <<Id("cond")>>)),
                       Blk(<<ES(CallId("unquote", <<Id("cons")>>))>>),
                       Blk(<<ES(CallId("unquote", <<Id("alt")>>))>>))>>))>>),
         ES(CallId("unless", <<Inf(">", IntL(10), IntL(5)),
                               CallId("puts", <<StrL("not greater")>>),
                               CallId("puts", <<StrL("greater")>>)>>))>>)

Quoted(i) == <<ES(CallId("quote", <<IntL(i)>>))>>
\* let one = macro() { quote(1) }; 5; let two = macro() { quote(2) };
\* let three = macro() { quote(3) }; one() + three()
LDefs ==
  Prog(<<LetMacro("one", <<>>, Quoted(1)), ES(IntL(5)), LetMacro("two", <<>>, Quoted(2)),
         LetMacro("three", <<>>, Quoted(3)),
         ES(Inf("+", CallId("one", <<>>), CallId("three", <<>>)))>>)

\* let w = fn() { let inner = macro() { quote(1) }; 2 }; w()
LNestedDef ==
  Prog(<<LetFn("w", <<>>, <<LetMacro("inner", <<>>, Quoted(1)), ES(IntL(2))>>),
         ES(CallId("w", <<>>))>>)

\* {p: 1, q: 2}
LHashErrors == Prog(<<ES(Hsh(<< <<Id("p"), IntL(1)>>, <<Id("q"), IntL(2)>> >>))>>)
\* {1: 2, "s": true}[1]
LHash ==
  Prog(<<ES(Idx(Hsh(<< <<IntL(1), IntL(2)>>, <<StrL("s"), BoolL(TRUE)>> >>), IntL(1)))>>)
\* quote(0 + unquote(if (true) { let z = 5; 1 })); z
LQuoteLet ==
  Prog(<<ES(CallId("quote",
              <<Inf("+", IntL(0),
                    CallId("unquote",
                      <<If(BoolL(TRUE), Blk(<<Let("z", IntL(5)), ES(IntL(1))>>), NilT)>>))>>)),
         ES(Id("z"))>>)

Lines ==
  {LNestedReturn, LReturnSkips, LFnReturn, LFnError, LErrorStops, LErrorInArgs, LAdder,
   LLexical, LLocalLet, LLateBinding, LFact, LLetY, LLetX, LCallK, LCallG, LX, LRebind,
   LDefM, LDefMCall, LDefMTwice, LCallM, LMacroArgs, LUnless, LDefs, LNestedDef,
   LHashErrors, LHash, LQuoteLet}

(***************************************************************************)
(* Tokens (token.go).  A source text is given as the tokens the lexer      *)
(* hands to the parser; after the last of them NextToken gives EOF.        *)
(***************************************************************************)
Token(type, literal) == [Type |-> type, Literal |-> literal]

keywords ==
  [ident \in {"fn", "let", "true", "false", "if", "else", "return", "macro"} |->
     CASE ident = "fn" -> "FUNCTION"
       [] ident = "let" -> "LET"
       [] ident = "true" -> "TRUE"
       [] ident = "false" -> "FALSE"
       [] ident = "if" -> "IF"
       [] ident = "else" -> "ELSE"
       [] ident = "return" -> "RETURN"
       [] ident = "macro" -> "MACRO"]

LookupIdent(ident) == IF ident \in DOMAIN keywords THEN keywords[ident] ELSE "IDENT"

\* the token of a word, of an operator or delimiter, and of a string
Word(ident) == Token(LookupIdent(ident), ident)
Sym(chars) == Token(chars, chars)
Text(s) == Token("STRING", s)

RECURSIVE DigitString(_)
\* the characters of a run of decimal digits
DigitString(ds) == IF ds = <<>> THEN "" ELSE ToString(Head(ds)) \o DigitString(Tail(ds))

\* the INT token of a run of digits; digits are the characters of Literal
Number(ds) == [Type |-> "INT", Literal |-> DigitString(ds), digits |-> ds]

EOF == Token("EOF", "")

(***************************************************************************)
(* strconv.ParseInt(s, 0, 64) for a string of decimal digits: with base 0  *)
(* a leading "0" selects base 8 and is dropped, any other string is read   *)
(* in base 10; a digit not below the base is a syntax error and a value    *)
(* above 1<<63 - 1 a range error.  The range is decided on the digits.     *)
(***************************************************************************)
RECURSIVE StripZeros(_), Below(_, _), Horner(_, _, _)

StripZeros(ds) == IF ds # <<>> /\ Head(ds) = 0 THEN StripZeros(Tail(ds)) ELSE ds

\* ds < ms for two digit strings of one length
Below(ds, ms) ==
  /\ ds # <<>>
  /\ \/ Head(ds) < Head(ms)
     \/ Head(ds) = Head(ms) /\ Below(Tail(ds), Tail(ms))

\* 1<<63 - 1 in base 10 and in base 8
MaxInt64Digits(base) ==
  IF base = 10 THEN <<9, 2, 2, 3, 3, 7, 2, 0, 3, 6, 8, 5, 4, 7, 7, 5, 8, 0, 7>>
  ELSE [i \in 1..21 |-> 7]

InInt64(ds, base) ==
  LET s == StripZeros(ds)
      max == MaxInt64Digits(base) IN
  \/ Len(s) < Len(max)
  \/ Len(s) = Len(max) /\ (s = max \/ Below(s, max))

Horner(ds, base, n) == IF ds = <<>> THEN n ELSE Horner(Tail(ds), base, n * base + Head(ds))

\* (value, err)
ParseInt(ds) ==
  LET base == IF ds # <<>> /\ Head(ds) = 0 THEN 8 ELSE 10
      s == IF base = 8 THEN Tail(ds) ELSE ds IN
  IF ds = <<>> THEN [value |-> 0, err |-> "invalid syntax"]
  ELSE IF \E i \in 1..Len(s) : s[i] >= base THEN [value |-> 0, err |-> "invalid syntax"]
  ELSE IF ~InInt64(s, base) THEN [value |-> 0, err |-> "value out of range"]
  ELSE [value |-> Horner(s, base, 0), err |-> ""]

(***************************************************************************)
(* The parser (parser.go).  A Parser is (toks, pos, errors): curToken is   *)
(* toks[pos] and peekToken toks[pos + 1].  A parse function gives (n, p):  *)
(* the node it returns, as a term, and the parser after it.                *)
(***************************************************************************)
LOWEST == 1
EQUALS == 2
LESSGREATER == 3
SUM == 4
PRODUCT == 5
PREFIX == 6
CALL == 7
INDEX == 8

\* precedences[type], and LOWEST for a type that is not in the table
precedences(type) ==
  CASE type \in {"==", "!="} -> EQUALS
    [] type \in {"<", ">"} -> LESSGREATER
    [] type \in {"+", "-"} -> SUM
    [] type \in {"/", "*"} -> PRODUCT
    [] type = "(" -> CALL
    [] type = "[" -> INDEX
    [] OTHER -> LOWEST

\* the token types New registers a prefix and an infix function for
prefixParseFns ==
  {"IDENT", "INT", "STRING", "!", "-", "TRUE", "FALSE", "(", "IF", "FUNCTION", "[", "{",
   "MACRO"}
infixParseFns == {"+", "-", "/", "*", "==", "!=", "<", ">", "(", "["}

\* a nil pointer of a node type held in a Statement: not a nil Statement
NilPointer(type) == [t |-> type, nil |-> TRUE]

\* l.NextToken() for the i-th time
At(toks, i) == IF i \in 1..Len(toks) THEN toks[i] ELSE EOF

\* hung: a loop of the parser has come round without moving on (see Again)
New(toks) == [toks |-> toks, pos |-> 1, errors |-> <<>>, hung |-> FALSE]

curToken(p) == At(p.toks, p.pos)
peekToken(p) == At(p.toks, p.pos + 1)
nextToken(p) == [p EXCEPT !.pos = @ + 1]
\* the place of the parser in the text: after the last token the scanner gives
\* EOF for ever, every place there is the same
Cursor(p) == IF p.pos > Len(p.toks) THEN Len(p.toks) + 1 ELSE p.pos
\* a round of a loop begins at the place where the round before it began
\* (at; 0 before the first round): what a round does depends on the place only
\* (errors are only added to), so the rounds repeat and the loop of the source
\* never returns; the model ends the loop and marks the parser.  Nothing
\* follows a loop that does not return: every function hands a marked parser
\* back as it got it
Again(at, p) == Cursor(p) = at
Hang(p) == [p EXCEPT !.hung = TRUE]
curTokenIs(p, t) == curToken(p).Type = t
peekTokenIs(p, t) == peekToken(p).Type = t

peekError(p, t) ==
  [p EXCEPT !.errors = Append(@, "expected next token to be " \o t \o ", got "
                                   \o peekToken(p).Type \o " instead")]

\* (ok, p)
expectPeek(p, t) ==
  IF peekTokenIs(p, t) THEN [ok |-> TRUE, p |-> nextToken(p)]
  ELSE [ok |-> FALSE, p |-> peekError(p, t)]

\* a variant that records no error
noPrefixParseFnErrorSilent(p, t) == p

noPrefixParseFnError(p, t) ==
  [p EXCEPT !.errors = Append(@, "no prefix parse function for " \o t \o " found")]

peekPrecedence(p) == precedences(peekToken(p).Type)

\* a variant that binds the right operand one step looser
curPrecedenceLoose(p) == precedences(curToken(p).Type) - 1

curPrecedence(p) == precedences(curToken(p).Type)

Node(n, p) == [n |-> n, p |-> p]

parseIdentifier(p) == Node(Id(curToken(p).Literal), p)

\* fmt.Sprintf("%q", s) for a string of digits
FmtQ(s) == "\"" \o s \o "\""

parseIntegerLiteral(p) ==
  LET value == ParseInt(curToken(p).digits) IN
  IF value.err # ""
  THEN Node(NilT, [p EXCEPT !.errors = Append(@, "could not parse "
                                                 \o FmtQ(curToken(p).Literal)
                                                 \o " as integer")])
  ELSE Node([t |-> "IntegerLiteral", i |-> value.value, lit |-> curToken(p).Literal], p)

parseStringLiteral(p) == Node(StrL(curToken(p).Literal), p)

parseBoolean(p) == Node(BoolL(curTokenIs(p, "TRUE")), p)

\* hash.Pairs[key] = value: a nil key is one key, every node is its own
PutParsedPair(pairs, key, value) ==
  IF key = NilT /\ \E j \in 1..Len(pairs) : pairs[j][1] = NilT
  THEN [j \in 1..Len(pairs) |-> IF pairs[j][1] = NilT THEN <<key, value>> ELSE pairs[j]]
  ELSE Append(pairs, <<key, value>>)

RECURSIVE parseExpression(_, _), infixLoop(_, _), prefix(_), infix(_, _),
          parseStatement(_), parseBlockLoop(_, _, _), parseExpressionListLoop(_, _, _),
          parseHashLoop(_, _, _), programLoop(_, _, _)

\* the term of a literal or a call whose list is the slice that was parsed:
\* the field nilslice marks the term whose list is the nil slice
WithSlice(term, nil) ==
  IF nil THEN [f \in DOMAIN term \cup {"nilslice"} |-> IF f = "nilslice" THEN TRUE ELSE term[f]]
  ELSE term

\* Nothing follows a call that does not return: after(x) is what a function
\* does with the outcome x of a call, the marked parser handed back as it is.

\* parseFunctionParameters' loop over ", ident"
RECURSIVE parseParametersLoop(_, _, _)
parseParametersLoop(at, p, identifiers) ==
  IF ~peekTokenIs(p, ",") THEN [ids |-> identifiers, p |-> p]
  ELSE IF Again(at, p) THEN [ids |-> identifiers, p |-> Hang(p)]
  ELSE LET q == nextToken(nextToken(p)) IN
       parseParametersLoop(Cursor(p), q, Append(identifiers, Id(curToken(q).Literal)))

\* what parseFunctionParameters and parseExpressionList return after the loop
\* l: the list, or the nil slice when the closing token end is not the next
closeList(l, list, end) ==
  LET e == expectPeek(l.p, end) IN
  IF ~e.ok THEN [list |-> <<>>, nil |-> TRUE, p |-> e.p]
  ELSE [list |-> list, nil |-> FALSE, p |-> e.p]

\* (list, p): list is the empty list for the nil slice as well, nil tells them apart
parseFunctionParameters(p) ==
  IF peekTokenIs(p, ")") THEN [list |-> <<>>, nil |-> FALSE, p |-> nextToken(p)]
  ELSE LET q == nextToken(p) IN
       LET after(l) ==
             IF l.p.hung THEN Node(NilT, l.p)
             ELSE closeList(l, l.ids, ")") IN
       after(parseParametersLoop(0, q, <<Id(curToken(q).Literal)>>))

\* a variant of parseBlockStatement's loop without the nextToken that ends a round
parseBlockLoopHeld(at, p, stmts) ==
  IF curTokenIs(p, "}") \/ curTokenIs(p, "EOF") THEN Node(Blk(stmts), p)
  ELSE IF Again(at, p) THEN Node(Blk(stmts), Hang(p))
  ELSE LET after(s) ==
             IF s.p.hung THEN Node(NilT, s.p)
             ELSE parseBlockLoop(Cursor(p), s.p,
                                 IF s.n # NilT THEN Append(stmts, s.n) ELSE stmts) IN
       after(parseStatement(p))

\* parseBlockStatement's loop
parseBlockLoop(at, p, stmts) ==
  IF curTokenIs(p, "}") \/ curTokenIs(p, "EOF") THEN Node(Blk(stmts), p)
  ELSE IF Again(at, p) THEN Node(Blk(stmts), Hang(p))
  ELSE LET after(s) ==
             IF s.p.hung THEN Node(NilT, s.p)
             ELSE parseBlockLoop(Cursor(p), nextToken(s.p),
                                 IF s.n # NilT THEN Append(stmts, s.n) ELSE stmts) IN
       after(parseStatement(p))

parseBlockStatement(p) == parseBlockLoop(0, nextToken(p), <<>>)

\* parseFunctionLiteral and parseMacroLiteral after the parameters ps
parseLiteralBody(ps, type) ==
  LET lb == expectPeek(ps.p, "{") IN
  IF ~lb.ok THEN Node(NilT, lb.p)
  ELSE LET after(body) ==
             IF body.p.hung THEN Node(NilT, body.p)
             ELSE Node(WithSlice([t |-> type, params |-> ps.list, body |-> body.n],
                                 ps.nil), body.p) IN
       after(parseBlockStatement(lb.p))

\* parseFunctionLiteral and parseMacroLiteral: a literal of the node type
parseLiteral(p, type) ==
  LET lp == expectPeek(p, "(") IN
  IF ~lp.ok THEN Node(NilT, lp.p)
  ELSE LET after(ps) ==
             IF ps.p.hung THEN Node(NilT, ps.p)
             ELSE parseLiteralBody(ps, type) IN
       after(parseFunctionParameters(lp.p))

parseFunctionLiteral(p) == parseLiteral(p, "FunctionLiteral")

parseMacroLiteral(p) == parseLiteral(p, "MacroLiteral")

parsePrefixExpression(p) ==
  LET after(right) ==
        IF right.p.hung THEN Node(NilT, right.p)
        ELSE Node(Pre(curToken(p).Literal, right.n), right.p) IN
  after(parseExpression(nextToken(p), PREFIX))

parseInfixExpression(p, left) ==
  LET after(right) ==
        IF right.p.hung THEN Node(NilT, right.p)
        ELSE Node(Inf(curToken(p).Literal, left, right.n), right.p) IN
  after(parseExpression(nextToken(p), curPrecedence(p)))

\* if !p.expectPeek(t) { return nil }; return n
closeNode(n, p, t) ==
  LET e == expectPeek(p, t) IN
  IF ~e.ok THEN Node(NilT, e.p) ELSE Node(n, e.p)

parseGroupedExpression(p) ==
  LET after(exp) ==
        IF exp.p.hung THEN Node(NilT, exp.p)
        ELSE closeNode(exp.n, exp.p, ")") IN
  after(parseExpression(nextToken(p), LOWEST))

\* the else part of parseIfExpression, after the consequence cons
parseElse(p, cond, cons) ==
  IF peekTokenIs(p, "ELSE")
  THEN LET lb == expectPeek(nextToken(p), "{") IN
       IF ~lb.ok THEN Node(NilT, lb.p)
       ELSE LET after(alt) ==
                  IF alt.p.hung THEN Node(NilT, alt.p)
                  ELSE Node(If(cond, cons, alt.n), alt.p) IN
            after(parseBlockStatement(lb.p))
  ELSE Node(If(cond, cons, NilT), p)

\* parseIfExpression after the condition cond
parseConsequence(cond) ==
  LET rp == expectPeek(cond.p, ")")
      lb == expectPeek(rp.p, "{") IN
  IF ~rp.ok THEN Node(NilT, rp.p)
  ELSE IF ~lb.ok THEN Node(NilT, lb.p)
  ELSE LET after(cons) ==
             IF cons.p.hung THEN Node(NilT, cons.p)
             ELSE parseElse(cons.p, cond.n, cons.n) IN
       after(parseBlockStatement(lb.p))

parseIfExpression(p) ==
  LET lp == expectPeek(p, "(") IN
  IF ~lp.ok THEN Node(NilT, lp.p)
  ELSE LET after(cond) ==
             IF cond.p.hung THEN Node(NilT, cond.p)
             ELSE parseConsequence(cond) IN
       after(parseExpression(nextToken(lp.p), LOWEST))

\* parseExpressionList's loop over ", expression"
parseExpressionListLoop(at, p, list) ==
  IF ~peekTokenIs(p, ",") THEN [list |-> list, p |-> p]
  ELSE IF Again(at, p) THEN [list |-> list, p |-> Hang(p)]
  ELSE LET after(e) ==
             IF e.p.hung THEN Node(NilT, e.p)
             ELSE parseExpressionListLoop(Cursor(p), e.p, Append(list, e.n)) IN
       after(parseExpression(nextToken(nextToken(p)), LOWEST))

\* parseExpressionList after the first expression
parseExpressionListRest(first, end) ==
  LET after(l) ==
        IF l.p.hung THEN Node(NilT, l.p)
        ELSE closeList(l, l.list, end) IN
  after(parseExpressionListLoop(0, first.p, <<first.n>>))

\* (list, p): list is the empty list for the nil slice as well, nil tells them apart
parseExpressionList(p, end) ==
  IF peekTokenIs(p, end) THEN [list |-> <<>>, nil |-> FALSE, p |-> nextToken(p)]
  ELSE LET after(first) ==
             IF first.p.hung THEN Node(NilT, first.p)
             ELSE parseExpressionListRest(first, end) IN
       after(parseExpression(nextToken(p), LOWEST))

parseCallExpression(p, function) ==
  LET after(arguments) ==
        IF arguments.p.hung THEN Node(NilT, arguments.p)
        ELSE Node(WithSlice(Call(function, arguments.list), arguments.nil), arguments.p) IN
  after(parseExpressionList(p, ")"))

parseArrayLiteral(p) ==
  LET after(elements) ==
        IF elements.p.hung THEN Node(NilT, elements.p)
        ELSE Node(WithSlice(Arr(elements.list), elements.nil), elements.p) IN
  after(parseExpressionList(p, "]"))

parseIndexExpression(p, left) ==
  LET after(index) ==
        IF index.p.hung THEN Node(NilT, index.p)
        ELSE closeNode(Idx(left, index.n), index.p, "]") IN
  after(parseExpression(nextToken(p), LOWEST))

\* a round of parseHashLiteral's loop after the key and the value
parseHashPair(at, pairs, key, value) ==
  LET comma == expectPeek(value.p, ",") IN
  IF peekTokenIs(value.p, "}")
  THEN parseHashLoop(at, value.p, PutParsedPair(pairs, key.n, value.n))
  ELSE IF ~comma.ok THEN Node(NilT, comma.p)
  ELSE parseHashLoop(at, comma.p, PutParsedPair(pairs, key.n, value.n))

\* a round of parseHashLiteral's loop after the key
parseHashValue(at, pairs, key) ==
  LET colon == expectPeek(key.p, ":") IN
  IF ~colon.ok THEN Node(NilT, colon.p)
  ELSE LET after(value) ==
             IF value.p.hung THEN Node(NilT, value.p)
             ELSE parseHashPair(at, pairs, key, value) IN
       after(parseExpression(nextToken(colon.p), LOWEST))

\* parseHashLiteral's loop: the pairs so far
parseHashLoop(at, p, pairs) ==
  IF peekTokenIs(p, "}") THEN closeNode(Hsh(pairs), p, "}")
  ELSE IF Again(at, p) THEN Node(NilT, Hang(p))
  ELSE LET after(key) ==
             IF key.p.hung THEN Node(NilT, key.p)
             ELSE parseHashValue(Cursor(p), pairs, key) IN
       after(parseExpression(nextToken(p), LOWEST))

parseHashLiteral(p) == parseHashLoop(0, p, <<>>)

\* p.prefixParseFns[p.curToken.Type]()
prefix(p) ==
  LET type == curToken(p).Type IN
  CASE type = "IDENT" -> parseIdentifier(p)
    [] type = "INT" -> parseIntegerLiteral(p)
    [] type = "STRING" -> parseStringLiteral(p)
    [] type \in {"!", "-"} -> parsePrefixExpression(p)
    [] type \in {"TRUE", "FALSE"} -> parseBoolean(p)
    [] type = "(" -> parseGroupedExpression(p)
    [] type = "IF" -> parseIfExpression(p)
    [] type = "FUNCTION" -> parseFunctionLiteral(p)
    [] type = "[" -> parseArrayLiteral(p)
    [] type = "{" -> parseHashLiteral(p)
    [] type = "MACRO" -> parseMacroLiteral(p)

\* p.infixParseFns[p.curToken.Type](left)
infix(p, left) ==
  LET type == curToken(p).Type IN
  CASE type = "(" -> parseCallExpression(p, left)
    [] type = "[" -> parseIndexExpression(p, left)
    [] OTHER -> parseInfixExpression(p, left)

\* the loop of parseExpression: left is (leftExp, p)
infixLoop(left, precedence) ==
  IF left.p.hung THEN left
  ELSE IF ~peekTokenIs(left.p, ";") /\ precedence < peekPrecedence(left.p)
  THEN IF peekToken(left.p).Type \notin infixParseFns THEN left
       ELSE infixLoop(infix(nextToken(left.p), left.n), precedence)
  ELSE left

parseExpression(p, precedence) ==
  IF curToken(p).Type \notin prefixParseFns
  THEN Node(NilT, noPrefixParseFnError(p, curToken(p).Type))
  ELSE infixLoop(prefix(p), precedence)

\* if p.peekTokenIs(token.SEMICOLON) { p.nextToken() }
skipSemicolon(p) == IF peekTokenIs(p, ";") THEN nextToken(p) ELSE p

parseLetStatement(p) ==
  LET name == expectPeek(p, "IDENT")
      assign == expectPeek(name.p, "=") IN
  IF ~name.ok THEN Node(NilPointer("LetStatement"), name.p)
  ELSE IF ~assign.ok THEN Node(NilPointer("LetStatement"), assign.p)
  ELSE LET after(value) ==
             IF value.p.hung THEN Node(NilT, value.p)
             ELSE Node(Let(curToken(name.p).Literal, value.n), skipSemicolon(value.p)) IN
       after(parseExpression(nextToken(assign.p), LOWEST))

parseReturnStatement(p) ==
  LET after(value) ==
        IF value.p.hung THEN Node(NilT, value.p)
        ELSE Node(Ret(value.n), skipSemicolon(value.p)) IN
  after(parseExpression(nextToken(p), LOWEST))

parseExpressionStatement(p) ==
  LET after(expression) ==
        IF expression.p.hung THEN Node(NilT, expression.p)
        ELSE Node(ES(expression.n), skipSemicolon(expression.p)) IN
  after(parseExpression(p, LOWEST))

parseStatement(p) ==
  CASE curTokenIs(p, "LET") -> parseLetStatement(p)
    [] curTokenIs(p, "RETURN") -> parseReturnStatement(p)
    [] OTHER -> parseExpressionStatement(p)

\* ParseProgram's loop
programLoop(at, p, stmts) ==
  IF curTokenIs(p, "EOF") THEN Node(Prog(stmts), p)
  ELSE IF Again(at, p) THEN Node(Prog(stmts), Hang(p))
  ELSE LET after(s) ==
             IF s.p.hung THEN Node(NilT, s.p)
             ELSE programLoop(Cursor(p), nextToken(s.p),
                              IF s.n # NilT THEN Append(stmts, s.n) ELSE stmts) IN
       after(parseStatement(p))

\* (program, errors), and whether ParseProgram did not return
Parsed(r) == [program |-> r.n, errors |-> r.p.errors, hung |-> r.p.hung]

\* parser.New(lexer.New(line)).ParseProgram(): (program, errors)
ParseProgram(toks) == Parsed(programLoop(0, New(toks), <<>>))

(***************************************************************************)
(* The source texts of the one-line sessions, as tokens.                   *)
(***************************************************************************)
\* an integer of one digit, as the lexer gives it: a minus sign is a token
IntToks(i) == IF i < 0 THEN <<Sym("-"), Number(<<-i>>)>> ELSE <<Number(<<i>>)>>

RECURSIVE Separated(_, _)
\* token runs with the token sep between one and the next
Separated(runs, sep) ==
  IF runs = <<>> THEN <<>>
  ELSE IF Len(runs) = 1 THEN runs[1]
  ELSE runs[1] \o <<sep>> \o Separated(Tail(runs), sep)

Bracketed(open, toks, close) == <<Sym(open)>> \o toks \o <<Sym(close)>>

\* the elements of the sample array of n elements: 5, 6, ...
ArrayOf(n) == [j \in 1..n |-> j + 4]
\* [5, 6, ...]
ArrayToks(n) ==
  Bracketed("[", Separated([j \in 1..n |-> IntToks(ArrayOf(n)[j])], Sym(",")), "]")

\* [5, 6, ...][i]
SIndex(n, i) == ArrayToks(n) \o Bracketed("[", IntToks(i), "]")
IndexSources == {SIndex(n, i) : n \in 0..MaxArray, i \in (-MaxIndex)..MaxIndex}

\* NAME(ARG, ...)
CallToks(name, args) == <<Word(name)>> \o Bracketed("(", Separated(args, Sym(",")), ")")
LetToks(name, value) == <<Word("let"), Word(name), Sym("=")>> \o value

\* push([5, 6, ...], 9) and len(push([5, 6, ...], 9))
SPush(n) == CallToks("push", <<ArrayToks(n), IntToks(9)>>)
SPushLen(n) == CallToks("len", <<SPush(n)>>)

\* statements that call push and rest on the array bound to arr
PushOps ==
  {CallToks("push", <<<<Word("arr")>>, IntToks(9)>>),
   CallToks("rest", <<<<Word("arr")>>>>),
   LetToks("b", CallToks("push", <<<<Word("arr")>>, IntToks(9)>>)),
   CallToks("rest", <<CallToks("push", <<<<Word("arr")>>, IntToks(9)>>)>>)}
PushOpSeqs == {<<>>} \cup {<<o>> : o \in PushOps} \cup {<<o1, o2>> : o1 \in PushOps, o2 \in PushOps}

\* let arr = [5, 6, ...]; OP; ...; LAST
SKeep(n, ops, last) ==
  Separated(<<LetToks("arr", ArrayToks(n))>> \o ops \o <<last>>, Sym(";"))
PushSources ==
  {SPush(n) : n \in 0..MaxArray} \cup {SPushLen(n) : n \in 0..MaxArray}
    \cup {SKeep(n, ops, <<Word("arr")>>) : n \in 0..MaxArray, ops \in PushOpSeqs}
    \cup {SKeep(n, ops, CallToks("len", <<<<Word("arr")>>>>)) :
             n \in 0..MaxArray, ops \in PushOpSeqs}

\* an expression, the kind of its value and, for a value without identity,
\* the value
Sample(toks, kind, obj) == [toks |-> toks, kind |-> kind, obj |-> obj]

\* if (false) { 1 }
NullToks ==
  <<Word("if")>> \o Bracketed("(", <<Word("false")>>, ")") \o Bracketed("{", IntToks(1), "}")
\* fn(x) { x }
FnToks ==
  <<Word("fn")>> \o Bracketed("(", <<Word("x")>>, ")") \o Bracketed("{", <<Word("x")>>, "}")

HashableSamples ==
  {Sample(IntToks(0), "INTEGER", Integer(0)), Sample(IntToks(1), "INTEGER", Integer(1)),
   Sample(<<Word("true")>>, "BOOLEAN", TrueObj), Sample(<<Word("false")>>, "BOOLEAN", FalseObj),
   Sample(<<Text("")>>, "STRING", String("")), Sample(<<Text("1")>>, "STRING", String("1"))}
ValueSamples ==
  HashableSamples \cup
  {Sample(NullToks, "NULL", NULL), Sample(<<Word("len")>>, "BUILTIN", Builtin("len")),
   Sample(ArrayToks(1), "ARRAY", NIL), Sample(Bracketed("{", <<>>, "}"), "HASH", NIL),
   Sample(FnToks, "FUNCTION", NIL)}

\* the keys of the sample hash literals: no key twice
KeyLists ==
  {ks \in UNION {[1..n -> HashableSamples] : n \in 0..MaxPairs} :
     \A i \in DOMAIN ks : \A j \in DOMAIN ks : ks[i] = ks[j] => i = j}
\* the value stored under the j-th key
ValueAt(j) == "v" \o ToString(j)

\* {K1: "v1", K2: "v2", ...}[X]
SHashIndex(ks, x) ==
  Bracketed("{", Separated([j \in DOMAIN ks |-> ks[j].toks \o <<Sym(":"), Text(ValueAt(j))>>],
                           Sym(",")), "}")
    \o Bracketed("[", x.toks, "]")
HashSources == {SHashIndex(ks, x) : ks \in KeyLists, x \in ValueSamples}

\* fn() { }(): a call that gives no object at all
NoObjectToks ==
  <<Word("fn")>> \o Bracketed("(", <<>>, ")") \o Bracketed("{", <<>>, "}")
    \o Bracketed("(", <<>>, ")")
TruthSamples ==
  ValueSamples \cup
  {Sample(IntToks(-1), "INTEGER", Integer(-1)), Sample(<<Text("false")>>, "STRING", String("false")),
   Sample(ArrayToks(0), "ARRAY", NIL), Sample(NoObjectToks, "", NIL)}

\* N times ! before X
RECURSIVE Banged(_, _)
Banged(n, toks) == IF n = 0 THEN toks ELSE <<Sym("!")>> \o Banged(n - 1, toks)
\* if (C) { 1 } else { 2 }, and if (C) { 1 } when there is no else
SIf(cond, else) ==
  <<Word("if")>> \o Bracketed("(", cond, ")") \o Bracketed("{", IntToks(1), "}")
    \o (IF else THEN <<Word("else")>> \o Bracketed("{", IntToks(2), "}") ELSE <<>>)
MaxBangs == 2
TruthSources ==
  {Banged(n, x.toks) : n \in 1..MaxBangs, x \in TruthSamples}
    \cup {SIf(Banged(n, x.toks), else) : n \in 0..MaxBangs, x \in TruthSamples,
                                         else \in BOOLEAN}

InfixOperators == {"+", "-", "*", "/", "<", ">", "==", "!="}
InfixSamples ==
  ValueSamples \cup
  {Sample(IntToks(-1), "INTEGER", Integer(-1)), Sample(IntToks(2), "INTEGER", Integer(2)),
   Sample(<<Text("false")>>, "STRING", String("false"))}
\* L OP R
SInfix(l, op, r) == l.toks \o <<Sym(op)>> \o r.toks
\* let a = X; a OP a
SSelf(x, op) ==
  Separated(<<LetToks("a", x.toks), <<Word("a"), Sym(op), Word("a")>>>>, Sym(";"))
InfixSources ==
  {SInfix(l, op, r) : l \in InfixSamples, op \in InfixOperators, r \in InfixSamples}
    \cup {SSelf(x, op) : x \in InfixSamples, op \in InfixOperators}

\* an operand of a chain: its tokens and its text with every operator in
\* parentheses
Atom(toks, text) == [toks |-> toks, text |-> text]
Names == <<"a", "b", "c", "d", "e", "f">>
Plain(i) == Atom(<<Word(Names[i])>>, Names[i])
\* b under prefix operators, index brackets and call parentheses
Dressed ==
  LET b == <<Word("b")>>
      idx == Bracketed("[", IntToks(1), "]")
      call == Bracketed("(", IntToks(1), ")") IN
  {Atom(b, "b"),
   Atom(<<Sym("-")>> \o b, "(-b)"),
   Atom(<<Sym("!")>> \o b, "(!b)"),
   Atom(<<Sym("!"), Sym("-")>> \o b, "(!(-b))"),
   Atom(b \o idx, "(b[1])"),
   Atom(b \o call, "b(1)"),
   Atom(<<Sym("-")>> \o b \o idx, "(-(b[1]))"),
   Atom(<<Sym("!")>> \o b \o call, "(!b(1))"),
   Atom(b \o call \o idx, "(b(1)[1])"),
   Atom(b \o idx \o idx, "((b[1])[1])")}
\* one operator of each precedence of binary operators
OneOfEach == {"==", "<", "-", "*"}

Chain(atoms, ops) == [atoms |-> atoms, ops |-> ops]
PlainChains ==
  UNION {{Chain([i \in 1..(n + 1) |-> Plain(i)], ops) : ops \in [1..n -> InfixOperators]} :
           n \in 1..MaxChain}
DressedChains ==
  {Chain(<<l, r>>, <<op>>) : l \in Dressed, op \in OneOfEach, r \in Dressed}
    \cup {Chain(<<Plain(1), m, Plain(3)>>, ops) : m \in Dressed, ops \in [1..2 -> OneOfEach]}
Chains == PlainChains \cup DressedChains

\* A1 OP1 A2 OP2 ... An+1
RECURSIVE ChainToks(_, _)
ChainToks(c, i) ==
  IF i > Len(c.ops) THEN c.atoms[i].toks
  ELSE c.atoms[i].toks \o <<Sym(c.ops[i])>> \o ChainToks(c, i + 1)
SChain(c) == ChainToks(c, 1)
ChainSources == {SChain(c) : c \in Chains}

\* a line that ends where the parser expects the token want
Unfinished(toks, want) == [toks |-> toks, want |-> want]
UnfinishedLines ==
  {Unfinished(<<Sym("(")>> \o IntToks(1) \o <<Sym("+")>> \o IntToks(2), ")"),
   Unfinished(<<Word("add"), Sym("(")>> \o IntToks(1) \o <<Sym(",")>> \o IntToks(2), ")"),
   Unfinished(<<Sym("[")>> \o IntToks(1) \o <<Sym(",")>> \o IntToks(2), "]"),
   Unfinished(<<Word("a"), Sym("[")>> \o IntToks(1), "]"),
   Unfinished(<<Sym("{")>> \o IntToks(1) \o <<Sym(":")>> \o IntToks(2), "}"),
   Unfinished(<<Sym("{")>> \o IntToks(1), ":"),
   Unfinished(<<Word("if"), Sym("(")>> \o IntToks(1), ")"),
   Unfinished(<<Word("if")>> \o Bracketed("(", IntToks(1), ")"), "{"),
   Unfinished(<<Word("let"), Word("x")>>, "="),
   Unfinished(<<Word("let")>>, "IDENT")}
UnfinishedSources == {u.toks : u \in UnfinishedLines}

\* runs of decimal digits and whether they are within the signed 64-bit range
Digits(ds, inRange) == [ds |-> ds, inRange |-> inRange]
DigitRuns ==
  {Digits(<<0>>, TRUE), Digits(<<7>>, TRUE), Digits(<<1, 0>>, TRUE), Digits(<<0, 0>>, TRUE),
   Digits(<<0, 0, 7>>, TRUE), Digits(<<0, 1, 0>>, TRUE), Digits(<<0, 9>>, TRUE),
   Digits(<<0, 8>>, TRUE), Digits(<<1, 0, 0>>, TRUE),
   Digits(<<2, 1, 4, 7, 4, 8, 3, 6, 4, 7>>, TRUE),
   Digits(<<9, 2, 2, 3, 3, 7, 2, 0, 3, 6, 8, 5, 4, 7, 7, 5, 8, 0, 8>>, FALSE),
   Digits(<<9, 9, 9, 9, 9, 9, 9, 9, 9, 9, 9, 9, 9, 9, 9, 9, 9, 9, 9, 9>>, FALSE)}
DigitSources == {<<Number(d.ds)>> : d \in DigitRuns}

\* calls of functions whose body is empty: fn() { }(), fn(x) { }(1) and
\* let f = fn() { }; f()
EmptyBodyCalls ==
  {NoObjectToks,
   <<Word("fn")>> \o Bracketed("(", <<Word("x")>>, ")") \o Bracketed("{", <<>>, "}")
      \o Bracketed("(", IntToks(1), ")"),
   Separated(<<LetToks("f", <<Word("fn")>> \o Bracketed("(", <<>>, ")")
                              \o Bracketed("{", <<>>, "}")),
               CallToks("f", <<>>)>>, Sym(";"))}

\* if (true) { return 5 }
IfReturnToks ==
  <<Word("if")>> \o Bracketed("(", <<Word("true")>>, ")")
    \o Bracketed("{", <<Word("return")>> \o IntToks(5), "}")
\* an if expression with a return where a value is used
ReturnInsideSources ==
  {Separated(<<LetToks("x", IfReturnToks), <<Word("x")>>>>, Sym(";")),
   Separated(<<LetToks("x", IfReturnToks), <<Word("x"), Sym("+")>> \o IntToks(1)>>, Sym(";")),
   FnToks \o Bracketed("(", IfReturnToks, ")"),
   Bracketed("[", IfReturnToks, "]"),
   IntToks(1) \o <<Sym("+")>> \o IfReturnToks,
   <<Sym("-")>> \o IfReturnToks,
   CallToks("len", <<IfReturnToks>>),
   IfReturnToks}

\* quote(X) and unquote(X)
QuoteToks(toks) == CallToks("quote", <<toks>>)
UnquoteToks(toks) == CallToks("unquote", <<toks>>)
\* fn(x) { quote(unquote(x) + 1) }
QuotingFnToks ==
  <<Word("fn")>> \o Bracketed("(", <<Word("x")>>, ")")
    \o Bracketed("{", QuoteToks(UnquoteToks(<<Word("x")>>) \o <<Sym("+")>> \o IntToks(1)), "}")
\* let f = fn(x) { quote(unquote(x) + 1) }; f(1); f(2)   (and f(1) alone)
SQuoteCalls(args) ==
  Separated(<<LetToks("f", QuotingFnToks)>> \o [j \in DOMAIN args |-> CallToks("f", <<IntToks(args[j])>>)],
            Sym(";"))
QuoteCallSources == {SQuoteCalls(<<1>>), SQuoteCalls(<<2>>), SQuoteCalls(<<1, 2>>)}

\* one statement for each child position of the node variants, with the
\* expression hole in that position
Holding(hole) ==
  LET one == IntToks(1)
      block(toks) == Bracketed("{", toks, "}")
      paren(toks) == Bracketed("(", toks, ")") IN
  <<hole,
    hole \o <<Sym("+")>> \o one,
    one \o <<Sym("+")>> \o hole,
    <<Sym("-")>> \o hole,
    hole \o Bracketed("[", one, "]"),
    <<Word("a")>> \o Bracketed("[", hole, "]"),
    <<Word("if")>> \o paren(hole) \o block(one),
    <<Word("if")>> \o paren(<<Word("true")>>) \o block(hole),
    <<Word("if")>> \o paren(<<Word("true")>>) \o block(one) \o <<Word("else")>> \o block(hole),
    <<Word("return")>> \o hole,
    LetToks("a", hole),
    <<Word("fn")>> \o paren(<<>>) \o block(hole),
    Bracketed("[", one \o <<Sym(",")>> \o hole, "]"),
    block(hole \o <<Sym(":")>> \o one),
    block(one \o <<Sym(":")>> \o hole),
    CallToks("puts", <<hole>>),
    CallToks("puts", <<one, hole>>),
    hole \o paren(<<>>),
    <<Word("macro")>> \o paren(<<>>) \o block(hole)>>
\* let m = macro() { quote(7) }
SevenMacroToks ==
  LetToks("m", <<Word("macro")>> \o Bracketed("(", <<>>, ")")
                 \o Bracketed("{", QuoteToks(IntToks(7)), "}"))
\* let m = macro() { quote(7) }; S, with S a statement that holds m()
SExpandIn(i) == Separated(<<SevenMacroToks, Holding(CallToks("m", <<>>))[i]>>, Sym(";"))
ExpandSources == {SExpandIn(i) : i \in DOMAIN Holding(<<>>)}

\* the statements of Holding that are expressions
ExpressionHolders == DOMAIN Holding(<<>>) \ {10, 11}
\* an expression to unquote and the expression that writes its value
Unquoted(inner, written) == [inner |-> inner, written |-> written]
FourPlusFour == IntToks(4) \o <<Sym("+")>> \o IntToks(4)
UnquotedSamples ==
  {Unquoted(FourPlusFour, IntToks(8)),
   Unquoted(IntToks(1) \o <<Sym("<")>> \o IntToks(2), <<Word("true")>>),
   Unquoted(QuoteToks(FourPlusFour), Bracketed("(", FourPlusFour, ")"))}
\* quote(E), with E an expression that holds unquote(INNER)
SQuoteIn(i, u) == QuoteToks(Holding(UnquoteToks(u.inner))[i])
\* quote(8 + unquote(4 + 4)) and quote(foobar + unquote(4 + 4))
SQuoteRest(left) == QuoteToks(left \o <<Sym("+")>> \o UnquoteToks(FourPlusFour))
\* quote(add(unquote(1 + 2), 3))
SQuoteAdd ==
  QuoteToks(CallToks("add", <<UnquoteToks(IntToks(1) \o <<Sym("+")>> \o IntToks(2)), IntToks(3)>>))
UnquoteSources ==
  {SQuoteIn(i, u) : i \in ExpressionHolders, u \in UnquotedSamples}
    \cup {SQuoteRest(IntToks(8)), SQuoteRest(<<Word("foobar")>>), SQuoteAdd}

\* {K1: V1, K2: V2}
HashOfTwo(k1, v1, k2, v2) ==
  Bracketed("{", k1 \o <<Sym(":")>> \o v1 \o <<Sym(",")>> \o k2 \o <<Sym(":")>> \o v2, "}")
PutsToks(str) == CallToks("puts", <<<<Text(str)>>>>)
\* {a: 1, b: 2} and {1: c, 2: d}, no name bound; {a: b, 2: d}
SHashKeyErrors == HashOfTwo(<<Word("a")>>, IntToks(1), <<Word("b")>>, IntToks(2))
SHashValueErrors == HashOfTwo(IntToks(1), <<Word("c")>>, IntToks(2), <<Word("d")>>)
SHashKeyFirst == HashOfTwo(<<Word("a")>>, <<Word("b")>>, IntToks(2), IntToks(2))
\* {1: puts("v1"), 2: puts("v2")}
SHashPuts == HashOfTwo(IntToks(1), PutsToks("v1"), IntToks(2), PutsToks("v2"))
\* {1: "a", 1: "b"}[1]
SHashSameKey ==
  HashOfTwo(IntToks(1), <<Text("a")>>, IntToks(1), <<Text("b")>>) \o Bracketed("[", IntToks(1), "]")
HashOrderSources == {SHashKeyErrors, SHashValueErrors, SHashKeyFirst, SHashPuts, SHashSameKey}

\* the i-th argument of a call: puts("ai"), which prints; the unbound name ei,
\* an Error; -puts("ai"), which prints and then is an Error
ArgKinds == {"prints", "fails", "prints and fails"}
ArgToks(kind, i) ==
  CASE kind = "prints" -> PutsToks("a" \o ToString(i))
    [] kind = "fails" -> <<Word("e" \o ToString(i))>>
    [] kind = "prints and fails" -> <<Sym("-")>> \o PutsToks("a" \o ToString(i))
ArgLists == UNION {[1..n -> ArgKinds] : n \in 0..MaxArgs}
\* if (!puts("callee")) { INNER }: prints, then is the value of INNER
CalleeToks(inner) ==
  <<Word("if")>> \o Bracketed("(", <<Sym("!")>> \o PutsToks("callee"), ")")
    \o Bracketed("{", inner, "}")
\* fn() { puts("body"); 5 }
BodyFnToks ==
  <<Word("fn")>> \o Bracketed("(", <<>>, ")")
    \o Bracketed("{", PutsToks("body") \o <<Sym(";")>> \o IntToks(5), "}")
\* CALLEE(A1, A2, ...), the callee a function or the Error of an unbound name
SCall(known, kinds) ==
  CalleeToks(IF known THEN BodyFnToks ELSE <<Word("missing")>>)
    \o Bracketed("(", Separated([i \in DOMAIN kinds |-> ArgToks(kinds[i], i)], Sym(",")), ")")
CallSources == {SCall(known, kinds) : known \in BOOLEAN, kinds \in ArgLists}

\* every stream of up to MaxToks of these tokens, most of them not a program
Alphabet ==
  {Sym("{"), Sym("}"), Sym("("), Sym(")"), Sym("["), Sym("]"), Sym(","), Sym(":"),
   Sym(";"), Sym("+"), Word("fn"), Word("if"), Word("let"), Word("x"), Number(<<1>>)}
TokenStreams == UNION {[1..n -> Alphabet] : n \in 0..MaxToks}
\* longer texts that end inside a block, a hash literal, a parameter list, an
\* argument list or an array literal, or have a list gone wrong
Unterminated ==
  {<<Word("if"), Sym("("), Word("x"), Sym(")"), Sym("{"), Number(<<1>>), Sym(";")>>,
   <<Word("fn"), Sym("("), Sym(")"), Sym("{"), Word("let"), Word("x"), Sym("=")>>,
   <<Word("fn"), Sym("("), Word("x"), Sym(","), Sym(","), Sym(")"), Sym("{"), Sym("{")>>,
   <<Word("fn"), Sym("("), Word("x"), Sym(","), Word("y"), Sym(",")>>,
   <<Sym("{"), Number(<<1>>), Sym(":"), Number(<<1>>), Sym(","), Number(<<1>>), Sym(":")>>,
   <<Sym("{"), Number(<<1>>), Sym(":"), Sym("{"), Number(<<1>>), Sym(":"), Sym("[")>>,
   <<Word("x"), Sym("("), Number(<<1>>), Sym(","), Number(<<1>>), Sym(",")>>,
   <<Sym("["), Word("x"), Sym("("), Sym(","), Sym(","), Sym("]"), Sym(",")>>,
   <<Word("if"), Sym("("), Word("x"), Sym(")"), Sym("{"), Sym("}"), Word("else"), Sym("{"),
     Word("fn"), Sym("("), Sym(")"), Sym("{"), Sym("{"), Sym("}"), Sym(",")>>}
StreamSources == TokenStreams \cup Unterminated

\* KEYWORD(T1, T2, ...) { } with the tokens ts between the parentheses
SParams(keyword, ts) ==
  <<Word(keyword)>> \o Bracketed("(", Separated([i \in DOMAIN ts |-> <<ts[i]>>], Sym(",")), ")")
    \o Bracketed("{", <<>>, "}")
\* tokens in the place of a parameter: two identifiers and four that are none
ParamTokens == {Word("x"), Word("y"), Number(<<1>>), Number(<<2>>), Word("true"), Text("s"), Sym("+")}
ParamLists == {<<>>} \cup {<<t>> : t \in ParamTokens} \cup {<<t, u>> : t \in ParamTokens, u \in ParamTokens}
ParamSources == {SParams(keyword, ts) : keyword \in {"fn", "macro"}, ts \in ParamLists}

\* expressions that give an Error (nope, len(1), -true) and one that gives 5
Failing == {<<Word("nope")>>, CallToks("len", <<IntToks(1)>>), <<Sym("-"), Word("true")>>}
StoredSamples == Failing \cup {IntToks(5)}
\* fn(p) { let q = p; [p] }(HOLE)
SBindParam(hole) ==
  <<Word("fn")>> \o Bracketed("(", <<Word("p")>>, ")")
    \o Bracketed("{", LetToks("q", <<Word("p")>>) \o <<Sym(";")>>
                       \o Bracketed("[", <<Word("p")>>, "]"), "}")
    \o Bracketed("(", hole, ")")
\* push([1], HOLE)
SPushOf(hole) == CallToks("push", <<Bracketed("[", IntToks(1), "]"), hole>>)
\* let m = macro(a) { quote([unquote(a)]) }; let v = m(HOLE)
SArrayMacro(hole) ==
  Separated(<<LetToks("m", <<Word("macro")>> \o Bracketed("(", <<Word("a")>>, ")")
                             \o Bracketed("{", QuoteToks(Bracketed("[", UnquoteToks(<<Word("a")>>), "]")), "}")),
              LetToks("v", CallToks("m", <<hole>>))>>, Sym(";"))
\* the statements of Holding, let v = the expression statements of Holding,
\* let v = a call, a push or a macro call of the expression statements of Holding
SStore(way, i, hole) ==
  CASE way = "statement" -> Holding(hole)[i]
    [] way = "let" -> LetToks("v", Holding(hole)[i])
    [] way = "parameter" -> LetToks("v", SBindParam(Holding(hole)[i]))
    [] way = "push" -> LetToks("v", SPushOf(Holding(hole)[i]))
    [] way = "macro" -> SArrayMacro(Holding(hole)[i])
StoreWays == {"statement", "let", "parameter", "push", "macro"}
StoreSources ==
  {SStore(way, i, hole) : way \in StoreWays, i \in ExpressionHolders, hole \in StoredSamples}
    \cup {Holding(hole)[i] : i \in {10, 11}, hole \in StoredSamples}

\* let NAME = macro(PARAMS) { quote(BODY) }
MacroToks(name, params, body) ==
  LetToks(name, <<Word("macro")>> \o Bracketed("(", Separated(params, Sym(",")), ")")
                  \o Bracketed("{", QuoteToks(body), "}"))
\* macros whose expansion holds a macro call, and the call that is expanded:
\* m() gives m();  m() gives n(), n() gives 1;  m(n()) gives its argument n()
Nesting(defs, call, left) == [defs |-> defs, call |-> call, left |-> left]
Nestings ==
  {Nesting(<<MacroToks("m", <<>>, CallToks("m", <<>>))>>,
           CallToks("m", <<>>), CallToks("m", <<>>)),
   Nesting(<<MacroToks("n", <<>>, IntToks(1)), MacroToks("m", <<>>, CallToks("n", <<>>))>>,
           CallToks("m", <<>>), CallToks("n", <<>>)),
   Nesting(<<MacroToks("n", <<>>, IntToks(1)),
             MacroToks("m", <<<<Word("a")>>>>, UnquoteToks(<<Word("a")>>))>>,
           CallToks("m", <<CallToks("n", <<>>)>>), CallToks("n", <<>>))}
\* the positions of Holding that Modify goes to (not those inside a call or a
\* macro literal)
ModifiedHolders == 1..15
SNested(x, i) == Separated(x.defs \o <<Holding(x.call)[i]>>, Sym(";"))
\* let n = macro() { quote(1) }; let m = macro() { quote(n()) }; [m(), n(), m()]
SNestedThree ==
  Separated(<<MacroToks("n", <<>>, IntToks(1)), MacroToks("m", <<>>, CallToks("n", <<>>)),
              Bracketed("[", Separated(<<CallToks("m", <<>>), CallToks("n", <<>>),
                                         CallToks("m", <<>>)>>, Sym(",")), "]")>>, Sym(";"))
NestedSources ==
  {SNested(x, i) : x \in Nestings, i \in DOMAIN Holding(<<>>)} \cup {SNestedThree}

Sources ==
  IndexSources \cup PushSources \cup HashSources \cup TruthSources \cup InfixSources
    \cup ChainSources \cup UnfinishedSources \cup DigitSources \cup EmptyBodyCalls
    \cup ReturnInsideSources \cup QuoteCallSources \cup ExpandSources \cup UnquoteSources
    \cup HashOrderSources \cup CallSources \cup StreamSources \cup ParamSources
    \cup StoreSources \cup NestedSources

(***************************************************************************)
(* The REPL (repl.Start): one environment and one macro environment for    *)
(* the whole session; each line is parsed, its macro definitions are taken *)
(* out, its macro calls are expanded, and the result is evaluated and      *)
(* printed.                                                                *)
(***************************************************************************)
VARIABLES
  ast,      \* the node store
  heap,     \* the store of environment frames
  out,      \* the lines written to standard output
  nobj,     \* the number of objects allocated
  pc,       \* where the loop of Start is
  program,  \* the Program of the current line
  result,   \* the value of the last call of Eval, or the panic that ended the run
  nlines,   \* the number of lines read
  pre,      \* the memory and the program before the last step of the pipeline
  src,      \* the tokens of the line of a one-line session
  parsed    \* the Program and the errors ParseProgram gave for src

vars == <<ast, heap, out, nobj, pc, program, result, nlines, pre, src, parsed>>

\* env and macroEnv of Start
Env == 1
MacroEnv == 2

Oracles == [0..(OracleLen - 1) -> BOOLEAN]
NoOracle == [i \in 0..(OracleLen - 1) |-> FALSE]
\* the part of an oracle that a run which did oi ranges has looked at
Used(orc, oi) == [i \in 0..(OracleLen - 1) |-> i < oi /\ orc[i]]

\* the memory as an evaluation sees it
Mem(orc) == [ast |-> ast, heap |-> heap, out |-> out, nobj |-> nobj, orc |-> orc, oi |-> 0]

Before(orc, oi) == [st |-> Mem(Used(orc, oi)), program |-> program]

\* the session before the first line
Start ==
  /\ ast = <<>>
  /\ heap = NewEnvironment(NewEnvironment(<<>>))
  /\ out = <<>>
  /\ nobj = 0
  /\ pc = "read"
  /\ program = 0
  /\ result = NIL
  /\ nlines = 0
  /\ pre = [st |-> [ast |-> <<>>, heap |-> <<>>, out |-> <<>>, nobj |-> 0,
                    orc |-> NoOracle, oi |-> 0],
            program |-> 0]

NotParsed == [program |-> NilT, errors |-> <<>>, hung |-> FALSE]

Init == Start /\ src = <<>> /\ parsed = NotParsed

\* a session that reads one line of source text
InitSource == Start /\ src \in Sources /\ parsed = NotParsed

\* scanner.Scan and ParseProgram of a line without parse errors
ReadLine ==
  /\ pc = "read"
  /\ nlines < MaxLines
  /\ \E line \in Lines :
       LET l == Load(line, ast) IN
       /\ ast' = l.ast
       /\ program' = l.id
  /\ nlines' = nlines + 1
  /\ pc' = "parsed"
  /\ UNCHANGED <<heap, out, nobj, result, pre, src, parsed>>

\* printParserErrors: what it writes
printParserErrors(errors) ==
  <<"MONKEY_FACE", "Woops! We ran into some monkey business here!", " parser errors:">>
    \o [i \in 1..Len(errors) |-> "\t" \o errors[i]]

\* what Start does with the outcome r of ParseProgram: it prints the errors and
\* reads on, or hands the program to the macro pass; when ParseProgram does not
\* return nothing follows
Scanned(r) ==
  /\ parsed' = r
  /\ IF r.hung
     THEN /\ out' = out
          /\ pc' = "hung"
          /\ ast' = ast
          /\ program' = program
     ELSE IF r.errors # <<>>
     THEN /\ out' = out \o printParserErrors(r.errors)
          /\ pc' = "read"
          /\ ast' = ast
          /\ program' = program
     ELSE /\ out' = out
          /\ pc' = "parsed"
          /\ ast' = Load(r.program, ast).ast
          /\ program' = Load(r.program, ast).id

\* scanner.Scan and ParseProgram of the line src
ReadSource ==
  /\ pc = "read"
  /\ nlines = 0
  /\ Scanned(ParseProgram(src))
  /\ nlines' = 1
  /\ UNCHANGED <<heap, nobj, result, pre, src>>

Commit(st) ==
  /\ ast' = st.ast
  /\ heap' = st.heap
  /\ out' = st.out
  /\ nobj' = st.nobj

\* evaluator.DefineMacros(program, macroEnv)
DefineMacrosStep ==
  /\ pc = "parsed"
  /\ Commit(DefineMacros(program, MacroEnv, Mem(NoOracle)))
  /\ pre' = Before(NoOracle, 0)
  /\ pc' = "defined"
  /\ UNCHANGED <<program, result, nlines, src, parsed>>

\* what Start keeps of the expansion m: the memory and the expanded program, or
\* the panic that ended the run
Expanded(m, orc) ==
  /\ Commit(m.st)
  /\ pre' = Before(orc, m.st.oi)
  /\ IF m.halt # NIL
     THEN pc' = "panic" /\ result' = m.halt /\ program' = program
     ELSE pc' = "expanded" /\ result' = result /\ program' = m.id

\* expanded := evaluator.ExpandMacros(program, macroEnv)
ExpandMacrosStep ==
  /\ pc = "defined"
  /\ \E orc \in Oracles : Expanded(ExpandMacros(program, MacroEnv, Mem(orc)), orc)
  /\ UNCHANGED <<nlines, src, parsed>>

\* what Start keeps of the evaluation r: the memory and the value, or the
\* panic that ended the run
Evaluated(r, orc) ==
  /\ Commit(r.st)
  /\ pre' = Before(orc, r.st.oi)
  /\ result' = r.v
  /\ pc' = IF IsPanic(r.v) THEN "panic" ELSE "evaluated"

\* evaluated := evaluator.Eval(expanded, env)
EvalStep ==
  /\ pc = "expanded"
  /\ \E orc \in Oracles :
       Evaluated(Eval(program, Env, Mem(orc)), orc)
  /\ UNCHANGED <<program, nlines, src, parsed>>

\* if evaluated != nil { io.WriteString(out, evaluated.Inspect()) ... }
PrintStep ==
  /\ pc = "evaluated"
  /\ IF result = NIL THEN out' = out /\ pc' = "read"
     ELSE IF CanInspect(result, ast)
     THEN out' = Append(out, Inspect(result, ast)) /\ pc' = "read"
     ELSE out' = out /\ pc' = "panic"
  /\ UNCHANGED <<ast, heap, nobj, program, result, nlines, pre, src, parsed>>

Next == ReadLine \/ DefineMacrosStep \/ ExpandMacrosStep \/ EvalStep \/ PrintStep

Spec == Init /\ [][Next]_vars

NextSource == ReadSource \/ DefineMacrosStep \/ ExpandMacrosStep \/ EvalStep \/ PrintStep

SpecSource == InitSource /\ [][NextSource]_vars


(***************************************************************************)
(* What the claims speak of.                                               *)
(***************************************************************************)
\* the memory now, as an evaluation leaves it
Now(st) == [st EXCEPT !.ast = ast, !.heap = heap, !.out = out, !.nobj = nobj]

\* the last step was a call of Eval that returned: pre is the memory and the
\* program it was given
EvalDone == pc = "evaluated"
\* the line whose program is evaluated
Given == Tree(pre.st.ast, pre.program)

Frames(h) == 1..Len(h)
NodesOf(a, t) == {id \in 1..Len(a) : a[id].t = t}
Min(S) == CHOOSE x \in S : \A y \in S : x <= y

\* the Function values bound in some frame
Functions(h) ==
  UNION {{h[e].store[n] : n \in {m \in DOMAIN h[e].store : h[e].store[m].k = "FUNCTION"}} :
           e \in Frames(h)}

\* arguments for a call of fn: the same integer for each parameter
ArgValues == {0, 1}
ArgsFor(fn, i) == [j \in 1..Len(fn.params) |-> Integer(i)]

RECURSIVE StmtAt(_, _, _, _)
\* the evaluation of statement i of the statement list of node, after the
\* statements before it were evaluated one by one
StmtAt(node, i, env, st) ==
  LET s0 == IF i = 1 THEN st ELSE StmtAt(node, i - 1, env, st).st IN
  Eval(s0.ast[node].stmts[i], env, s0)

\* the statements of node whose evaluation gives a ReturnValue, an Error or
\* a panic
Stopping(node, env, st) ==
  {i \in 1..Len(st.ast[node].stmts) :
     StmtAt(node, i, env, st).v.k \in {"RETURN_VALUE", "ERROR", "panic"}}

\* C1: a Block gives back the first ReturnValue or Error one of its statements
\* produces, as it is (not unwrapped), and leaves the memory as that statement
\* left it (no later statement is evaluated); evalProgram gives the value
\* inside the first ReturnValue; so a return inside nested blocks ends the
\* program with its value: the nested-return lines evaluate to 10, print
\* nothing and never give 1.
C1_BlockKeepsFirstReturn ==
  EvalDone =>
    /\ \A b \in NodesOf(pre.st.ast, "BlockStatement") : \A e \in Frames(pre.st.heap) :
         LET stop == Stopping(b, e, pre.st)
             first == StmtAt(b, Min(stop), e, pre.st) IN
         (stop # {} /\ ~IsPanic(first.v)) => evalBlockStatement(b, e, pre.st) = first
    /\ LET stop == Stopping(pre.program, Env, pre.st)
           first == StmtAt(pre.program, Min(stop), Env, pre.st) IN
       (stop # {} /\ first.v.k = "RETURN_VALUE") =>
          /\ result = first.v.value
          /\ Now(first.st) = first.st
    /\ Given \in {LNestedReturn, LReturnSkips} => result = Integer(10) /\ out = pre.st.out

\* a return inside two nested blocks ended the program: 10, and neither
\* puts("inner") nor puts("outer") ran
C1_Witness ==
  /\ EvalDone
  /\ Given = LReturnSkips
  /\ result = Integer(10)
  /\ out = pre.st.out

\* C2: applying a Function gives the value inside the ReturnValue of its body
\* and the memory the body left, and gives an Error of the body as it is; the
\* caller goes on: after f() returned 1 by a return statement the program
\* continues to its last statement, 2.
C2_CallUnwrapsReturn ==
  EvalDone =>
    /\ \A fn \in Functions(heap) : \A i \in ArgValues :
         LET st == Now(pre.st)
             x == extendFunctionEnv(fn, ArgsFor(fn, i), st)
             body == Eval(fn.body, x.env, x.st)
             r == applyFunction(fn, ArgsFor(fn, i), st) IN
         /\ body.v.k = "RETURN_VALUE" => r = Res(body.v.value, body.st)
         /\ body.v.k = "ERROR" => r = body
    /\ Given = LFnReturn => result = Integer(2) /\ out = pre.st.out
    /\ Given = LFnError =>
         result = Error("identifier not found: missing") /\ out = pre.st.out

\* f, whose body returns by a return statement, was called and the program
\* went on to give 2
C2_Witness ==
  /\ EvalDone
  /\ Given = LFnReturn
  /\ result = Integer(2)
  /\ \E fn \in Functions(heap) :
       Eval(fn.body, fn.env, Now(pre.st)).v.k = "RETURN_VALUE"

\* the sub-expressions an evaluation of node evaluates first, in this order,
\* whatever their values
Operands(a, node) ==
  LET n == a[node] IN
  CASE n.t = "PrefixExpression" -> <<n.right>>
    [] n.t = "InfixExpression" -> <<n.left, n.right>>
    [] n.t = "IndexExpression" -> <<n.left, n.index>>
    [] n.t = "IfExpression" -> <<n.cond>>
    [] n.t \in {"ReturnStatement", "LetStatement"} -> <<n.value>>
    [] n.t = "ExpressionStatement" -> <<n.expr>>
    [] n.t = "ArrayLiteral" -> n.elems
    [] n.t = "CallExpression" ->
         IF TokenLiteral(a, n.fn) = "quote" THEN <<>> ELSE <<n.fn>> \o n.args
    [] OTHER -> <<>>

RECURSIVE OperandAt(_, _, _, _)
\* the evaluation of operand i of node after the operands before it
OperandAt(node, i, env, st) ==
  LET s0 == IF i = 1 THEN st ELSE OperandAt(node, i - 1, env, st).st IN
  Eval(Operands(st.ast, node)[i], env, s0)

Bound(h) == UNION {DOMAIN h[e].store : e \in Frames(h)}
\* the names of the parameters of a Function or Macro
ParamNames(a, fn) == {a[fn.params[j]].name : j \in 1..Len(fn.params)}

\* C4: a FunctionLiteral evaluated in frame e gives a Function whose Env is e;
\* a call of a Function makes one new frame whose outer is the Function's
\* Env, binds the parameters to the arguments in it, changes no other frame,
\* and evaluates the body there: every name that is not a parameter resolves
\* in the call as it resolves at the definition site, whoever calls.
\* newAdder(2) then addTwo(3) gives 5, and f called from g, which has its own
\* x = 2, still reads the x = 1 of the frame f was defined in.
C4_LexicalClosure ==
  EvalDone =>
    /\ \A node \in NodesOf(ast, "FunctionLiteral") : \A e \in Frames(heap) :
         LET f == Eval(node, e, Now(pre.st)).v IN f.k = "FUNCTION" /\ f.env = e
    /\ \A fn \in Functions(heap) : \A i \in ArgValues :
         LET st == Now(pre.st)
             args == ArgsFor(fn, i)
             x == extendFunctionEnv(fn, args, st)
             body == Eval(fn.body, x.env, x.st) IN
         /\ x.env = Len(heap) + 1
         /\ Len(x.st.heap) = Len(heap) + 1
         /\ x.st.heap[x.env].outer = fn.env
         /\ DOMAIN x.st.heap[x.env].store = ParamNames(ast, fn)
         /\ \A j \in 1..Len(fn.params) :
              x.st.heap[x.env].store[ast[fn.params[j]].name] = args[j]
         /\ \A e \in Frames(heap) : x.st.heap[e] = heap[e]
         /\ \A n \in Bound(heap) \ ParamNames(ast, fn) :
              Get(x.st.heap, x.env, n) = Get(heap, fn.env, n)
         /\ ~Halts(body.v) /\ body.v.k # "RETURN_VALUE" =>
              applyFunction(fn, args, st) = body
    /\ Given = LAdder => result = Integer(5)
    /\ Given = LLexical => result = Integer(1)

\* addTwo, made by a call of newAdder, holds the frame of that call, where
\* x = 2, and addTwo(3) gave 5
C4_Witness ==
  /\ EvalDone
  /\ Given = LAdder
  /\ result = Integer(5)
  /\ LET addTwo == heap[Env].store["addTwo"] IN
     /\ addTwo.env # Env
     /\ heap[addTwo.env].outer = Env
     /\ heap[addTwo.env].store["x"] = Integer(2)

\* C5: Set(e, name, val) binds name in the store of frame e and changes
\* nothing else: no other name of e, no other frame, no outer link.  A let
\* statement evaluated in frame e changes, after its value is evaluated, only
\* its name in e; a call of a Function changes no frame that existed before
\* the call.  After h(0), whose body does let x = 2, the x of the session
\* frame is still 1.
C5_SetIsLocal ==
  EvalDone =>
    /\ \A e \in Frames(heap) : \A n \in Bound(heap) :
         LET h == Set(heap, e, n, Integer(3)) IN
         /\ Len(h) = Len(heap)
         /\ h[e].outer = heap[e].outer
         /\ DOMAIN h[e].store = DOMAIN heap[e].store \cup {n}
         /\ h[e].store[n] = Integer(3)
         /\ \A m \in DOMAIN heap[e].store \ {n} : h[e].store[m] = heap[e].store[m]
         /\ \A f \in Frames(heap) \ {e} : h[f] = heap[f]
    /\ \A node \in NodesOf(ast, "LetStatement") : \A e \in Frames(heap) :
         LET st == Now(pre.st)
             val == Eval(ast[node].value, e, st)
             r == Eval(node, e, st)
             n == ast[node].name IN
         ~Halts(val.v) =>
           /\ Len(r.st.heap) = Len(val.st.heap)
           /\ r.st.heap[e].store[n] = val.v
           /\ r.st.heap[e].outer = val.st.heap[e].outer
           /\ DOMAIN r.st.heap[e].store = DOMAIN val.st.heap[e].store \cup {n}
           /\ \A m \in DOMAIN val.st.heap[e].store \ {n} :
                r.st.heap[e].store[m] = val.st.heap[e].store[m]
           /\ \A f \in Frames(val.st.heap) \ {e} : r.st.heap[f] = val.st.heap[f]
    /\ \A fn \in Functions(heap) : \A i \in ArgValues :
         LET r == applyFunction(fn, ArgsFor(fn, i), Now(pre.st)) IN
         \A e \in Frames(heap) : r.st.heap[e] = heap[e]
    /\ Given = LLocalLet => result = Integer(1) /\ heap[Env].store["x"] = Integer(1)

\* h(0) ran let x = 2 in its own frame, whose outer is the session frame, and
\* the x of the session frame is still 1
C5_Witness ==
  /\ EvalDone
  /\ Given = LLocalLet
  /\ result = Integer(1)
  /\ heap[Env].store["x"] = Integer(1)
  /\ \E e \in Frames(heap) :
       /\ heap[e].outer = Env
       /\ "x" \in DOMAIN heap[e].store
       /\ heap[e].store["x"] = Integer(2)

\* C6: a Function refers to the frame it was made in: a binding made in that
\* frame after the Function was made is what a later call of the Function
\* finds for that name.  So k, defined before let y = 7, gives 7; fact finds
\* its own name and fact(1) gives 1; and after a later line's let y = 8 the
\* same k gives 8.
C6_ClosureRefersToFrame ==
  EvalDone =>
    /\ \A node \in NodesOf(ast, "FunctionLiteral") : \A e \in Frames(heap) :
         LET made == Eval(node, e, Now(pre.st))
             fn == made.v IN
         \A n \in (Bound(heap) \cup {"y"}) \ ParamNames(ast, fn) :
           LET later == [made.st EXCEPT !.heap = Set(@, e, n, Integer(3))]
               x == extendFunctionEnv(fn, ArgsFor(fn, 0), later) IN
           Get(x.st.heap, x.env, n) = [obj |-> Integer(3), ok |-> TRUE]
    /\ Given = LLateBinding => result = Integer(7)
    /\ Given = LFact => result = Integer(1)
    /\ (Given = LRebind /\ "k" \in DOMAIN pre.st.heap[Env].store) => result = Integer(8)

\* k was made by an earlier line, when y was 7 or unbound; this line's
\* let y = 8 came later and k() gave 8
C6_Witness ==
  /\ EvalDone
  /\ Given = LRebind
  /\ "k" \in DOMAIN pre.st.heap[Env].store
  /\ "y" \in DOMAIN pre.st.heap[Env].store
  /\ pre.st.heap[Env].store["y"] = Integer(7)
  /\ heap[Env].store["y"] = Integer(8)
  /\ result = Integer(8)

\* the last call of ExpandMacros returned
ExpandDone == pc = "expanded"
\* the calls of a macro bound in the macro environment, before the expansion
MacroCalls ==
  {c \in NodesOf(pre.st.ast, "CallExpression") : isMacroCall(c, MacroEnv, pre.st).ok}

\* C7: quoteArgs gives, for each argument of the call, a Quote of the
\* argument's node itself; and the expansion of a macro call leaves the
\* memory exactly as the evaluation of the macro's body does in a new frame
\* that binds each parameter to the Quote of its argument: nothing else is
\* evaluated.  m(missing); m(puts("arg")); m(1 / 0) expands without a panic,
\* prints nothing and leaves the session frame as it was.
C7_MacroArgsUnevaluated ==
  /\ ExpandDone =>
       /\ \A c \in NodesOf(pre.st.ast, "CallExpression") :
            LET q == quoteArgs(c, pre.st) IN
            /\ Len(q) = Len(pre.st.ast[c].args)
            /\ \A i \in 1..Len(q) : q[i].k = "QUOTE" /\ q[i].node = pre.st.ast[c].args[i]
       /\ \A c \in MacroCalls :
            LET m == isMacroCall(c, MacroEnv, pre.st).macro
                args == pre.st.ast[c].args
                n == Len(args)
                frame ==
                  [store |-> [p \in ParamNames(pre.st.ast, m) |->
                               LET j == CHOOSE j \in 1..Len(m.params) :
                                          pre.st.ast[m.params[j]].name = p IN
                               Quote(args[j], pre.st.nobj + j)],
                   outer |-> m.env]
                st1 == [pre.st EXCEPT !.heap = Append(@, frame), !.nobj = @ + n]
                direct == Eval(m.body, Len(st1.heap), st1)
                e == expandModifier(c, MacroEnv, pre.st) IN
            (n = Len(m.params) /\ direct.v.k = "QUOTE") =>
               e = [id |-> direct.v.node, st |-> direct.st, halt |-> NIL]
       /\ (Tree(pre.st.ast, pre.program) = LMacroArgs
             /\ "m" \in DOMAIN pre.st.heap[MacroEnv].store) =>
            /\ out = pre.st.out
            /\ heap[Env] = pre.st.heap[Env]
            /\ \A i \in 1..3 :
                 ast[ast[ast[program].stmts[i]].expr].t = "InfixExpression"
  /\ (pc = "defined" /\ Tree(ast, program) = LMacroArgs
        /\ "m" \in DOMAIN heap[MacroEnv].store) =>
       \A orc \in Oracles :
         LET x == ExpandMacros(program, MacroEnv, Mem(orc)) IN
         x.halt = NIL /\ x.st.out = out

\* m(missing); m(puts("arg")); m(1 / 0) was expanded, m being a macro: every
\* call is replaced by an infix expression and nothing was printed
C7_Witness ==
  /\ ExpandDone
  /\ Tree(pre.st.ast, pre.program) = LMacroArgs
  /\ "m" \in DOMAIN pre.st.heap[MacroEnv].store
  /\ \A i \in 1..3 : ast[ast[ast[program].stmts[i]].expr].t = "InfixExpression"
  /\ out = pre.st.out

\* C8: with m bound to macro(a) { quote(unquote(a) + 1) }, every top-level
\* statement m(arg) of the program is, after the expansion, (arg + 1) with
\* the argument of that very call site: m(1) is (1 + 1) and m(2) is (2 + 1),
\* in the program that defines m and in every later program of the session.
C8_EachCallSiteOwnArguments ==
  (ExpandDone /\ "m" \in DOMAIN pre.st.heap[MacroEnv].store) =>
    \A i \in 1..Len(pre.st.ast[pre.program].stmts) :
      LET s == Tree(pre.st.ast, pre.st.ast[pre.program].stmts[i]) IN
      \A arg \in {IntL(1), IntL(2)} :
        s = ES(CallId("m", <<arg>>)) =>
          Tree(ast, ast[program].stmts[i]) = ES(Inf("+", arg, IntL(1)))

\* the last call of DefineMacros returned
DefineDone == pc = "defined"

\* C9: after DefineMacros the statements of the program are those that are
\* not of the form let NAME = macro(...) {...}, in their order; for each
\* removed statement NAME is bound in the macro environment to a Macro of the
\* literal's parameters and body whose Env is the macro environment (the
\* last definition of a name wins); no other name of the macro environment,
\* no other frame and no node other than the Program changes, so a
\* definition inside a function body stays where it is and is not bound.
C9_DefineMacrosTopLevel ==
  DefineDone =>
    LET a == pre.st.ast
        before == a[pre.program].stmts
        IsDef(s) == a[s].t = "LetStatement" /\ a[s].value # 0
                      /\ a[a[s].value].t = "MacroLiteral"
        defs == {i \in 1..Len(before) : IsDef(before[i])}
        names == {a[before[i]].name : i \in defs} IN
    /\ program = pre.program
    /\ ast[program].stmts = SelectSeq(before, LAMBDA s : ~IsDef(s))
    /\ Len(ast) = Len(a)
    /\ \A id \in 1..Len(a) : id # program => ast[id] = a[id]
    /\ DOMAIN heap[MacroEnv].store = DOMAIN pre.st.heap[MacroEnv].store \cup names
    /\ \A i \in defs :
         LET lit == a[a[before[i]].value]
             got == heap[MacroEnv].store[a[before[i]].name] IN
         (\A j \in defs : j > i => a[before[j]].name # a[before[i]].name) =>
           /\ got.k = "MACRO"
           /\ got.params = lit.params
           /\ got.body = lit.body
           /\ got.env = MacroEnv
    /\ \A n \in DOMAIN pre.st.heap[MacroEnv].store \ names :
         heap[MacroEnv].store[n] = pre.st.heap[MacroEnv].store[n]
    /\ Len(heap) = Len(pre.st.heap)
    /\ \A e \in Frames(heap) \ {MacroEnv} : heap[e] = pre.st.heap[e]
    /\ out = pre.st.out
    /\ Tree(a, pre.program) = LNestedDef =>
         Tree(ast, program) = LNestedDef /\ "inner" \notin DOMAIN heap[MacroEnv].store

\* the program with macro definitions first, third and fourth of five
\* statements keeps its second and fifth, and one, two and three are bound
C9_Witness ==
  /\ DefineDone
  /\ Tree(pre.st.ast, pre.program) = LDefs
  /\ Len(ast[program].stmts) = 2
  /\ Tree(ast, ast[program].stmts[1]) = ES(IntL(5))
  /\ {"one", "two", "three"} \subseteq DOMAIN heap[MacroEnv].store

\* the result of Eval as the REPL shows it
Shown(v, a) == IF CanInspect(v, a) THEN Inspect(v, a) ELSE "<nil>"

\* C10: the program that is about to be evaluated, evaluated twice, each time
\* in a new empty environment, gives both times a result of the same kind
\* with the same Inspect() (a Hash listing its pairs in one fixed order),
\* whichever way the ranges over maps go.
C10_EvalDeterministic ==
  ExpandDone =>
    \A o1 \in Oracles : \A o2 \in Oracles :
      LET st1 == [Mem(o1) EXCEPT !.heap = NewEnvironment(@)]
          r1 == Eval(program, Len(st1.heap), st1)
          st2 == [r1.st EXCEPT !.heap = NewEnvironment(@), !.orc = o2, !.oi = 0]
          r2 == Eval(program, Len(st2.heap), st2) IN
      /\ r1.v.k = r2.v.k
      /\ Shown(r1.v, r1.st.ast) = Shown(r2.v, r2.st.ast)


(***************************************************************************)
(* Claims about one-line sessions (SpecSource).                            *)
(***************************************************************************)
\* the line was parsed: parsed is what ParseProgram gave for src
ParseDone == nlines = 1
\* the evaluation of the line is over: with a value or in a panic
EvalOver == pc \in {"evaluated", "panic"}
\* the elements of the Array the sample array of n elements evaluates to
ElementsOf(n) == [j \in 1..n |-> Integer(ArrayOf(n)[j])]

\* C11: indexing the array [5, 6, ...] of n elements by the integer i gives
\* the element at position i when 0 <= i < n and the value Null otherwise:
\* for a negative i, for i = n, for a larger i, and for every i when the
\* array is empty; it never gives an Error.
C11_ArrayIndexOutOfBoundsIsNull ==
  (EvalOver /\ src \in IndexSources) =>
  \A n \in 0..MaxArray : \A i \in (-MaxIndex)..MaxIndex :
    (src = SIndex(n, i)) =>
      result = IF 0 <= i /\ i < n THEN ElementsOf(n)[i + 1] ELSE NULL

\* an index past the end of a non-empty array, a negative index and an index
\* into the empty array have each given Null
C11_Witness ==
  /\ EvalDone
  /\ result = NULL
  /\ src \in {SIndex(MaxArray, MaxArray), SIndex(1, -1), SIndex(0, 0)}

\* C12: push([5, 6, ...], 9) is an Array of the elements of the array in
\* their order followed by 9, and its len is one more than the array's; and
\* after let arr = [5, 6, ...] and any two or fewer statements that call
\* push and rest on arr, arr is bound to an Array of the same elements as at
\* the let and len(arr) is their number.
C12_PushLeavesArray ==
  (EvalOver /\ src \in PushSources) =>
  \A n \in 0..MaxArray :
    /\ (src = SPush(n)) =>
          /\ result.k = "ARRAY"
          /\ result.elems = Append(ElementsOf(n), Integer(9))
    /\ (src = SPushLen(n)) => result = Integer(n + 1)
    /\ \A ops \in PushOpSeqs :
         /\ (src = SKeep(n, ops, <<Word("arr")>>)) =>
               /\ result.k = "ARRAY"
               /\ result.elems = ElementsOf(n)
               /\ Get(heap, Env, "arr").obj = result
         /\ (src = SKeep(n, ops, CallToks("len", <<<<Word("arr")>>>>))) =>
               /\ result = Integer(n)
               /\ Get(heap, Env, "arr").obj.elems = ElementsOf(n)

\* let arr = [5, 6]; let b = push(arr, 9); len(arr) has given 2 while b holds
\* three elements
C12_Witness ==
  /\ EvalDone
  /\ src = SKeep(2, <<LetToks("b", CallToks("push", <<<<Word("arr")>>, IntToks(9)>>))>>,
                 CallToks("len", <<<<Word("arr")>>>>))
  /\ result = Integer(2)
  /\ Len(Get(heap, Env, "b").obj.elems) = 3

\* C13: indexing the hash {K1: "v1", K2: "v2", ...}, whose keys are distinct
\* Integers, Booleans and Strings, by the value of X gives the string stored
\* under the key of the same kind and value as X, Null when there is none
\* (so the entries under 1, true and "1" are three entries), and the Error
\* "unusable as hash key: KIND" when X is a Null, Builtin, Array, Hash or
\* Function.
C13_HashIndexByKindAndValue ==
  (EvalOver /\ src \in HashSources) =>
  \A ks \in KeyLists : \A x \in ValueSamples :
    (src = SHashIndex(ks, x)) =>
      result = IF x \notin HashableSamples
               THEN Error("unusable as hash key: " \o x.kind)
               ELSE IF \E j \in DOMAIN ks : ks[j] = x
               THEN String(ValueAt(CHOOSE j \in DOMAIN ks : ks[j] = x))
               ELSE NULL

\* {1: "v1", true: "v2"}[true] has given "v2"
C13_Witness ==
  /\ EvalDone
  /\ src = SHashIndex(<<Sample(IntToks(1), "INTEGER", Integer(1)),
                         Sample(<<Word("true")>>, "BOOLEAN", TrueObj)>>,
                       Sample(<<Word("true")>>, "BOOLEAN", TrueObj))
  /\ result = String(ValueAt(2))

\* the sample is written as a Null or as false
Falsy(x) == x.kind = "NULL" \/ x.toks = <<Word("false")>>
\* N applications of ! turn falsy into truthy and back
TruthyAfter(n, x) == IF n % 2 = 0 THEN ~Falsy(x) ELSE Falsy(x)

\* C14: of the sample values only the Null and false are falsy: for every
\* sample X (0, -1, "", "false", arrays, hashes, functions, builtins, the
\* absent object included), !X is TRUE exactly when X is falsy and FALSE
\* otherwise, !!X is TRUE exactly when X is truthy, and if (C) { 1 } else { 2 }
\* with C one of X, !X, !!X gives 1 exactly when C is truthy, 2 (Null without
\* an else) otherwise.
C14_TruthinessConsistentWithBang ==
  (EvalOver /\ src \in TruthSources) =>
  \A x \in TruthSamples :
    /\ \A n \in 1..MaxBangs :
         (src = Banged(n, x.toks)) =>
           result = IF TruthyAfter(n, x) THEN TrueObj ELSE FalseObj
    /\ \A n \in 0..MaxBangs : \A else \in BOOLEAN :
         (src = SIf(Banged(n, x.toks), else)) =>
           result = IF TruthyAfter(n, x) THEN Integer(1)
                    ELSE IF else THEN Integer(2) ELSE NULL

\* if (!!0) { 1 } else { 2 } has given 1
C14_Witness ==
  /\ EvalDone
  /\ src = SIf(Banged(2, IntToks(0)), TRUE)
  /\ result = Integer(1)

\* what L OP R is for two Integers, the division by zero apart
OfIntegers(op, a, b) ==
  CASE op = "+" -> Integer(a + b)
    [] op = "-" -> Integer(a - b)
    [] op = "*" -> Integer(a * b)
    [] op = "/" -> Integer(IF (a < 0) = (b < 0) THEN (IF a < 0 THEN -a ELSE a) \div (IF b < 0 THEN -b ELSE b)
                           ELSE -((IF a < 0 THEN -a ELSE a) \div (IF b < 0 THEN -b ELSE b)))
    [] op = "<" -> IF a < b THEN TrueObj ELSE FalseObj
    [] op = ">" -> IF a > b THEN TrueObj ELSE FalseObj
    [] op = "==" -> IF a = b THEN TrueObj ELSE FalseObj
    [] op = "!=" -> IF a # b THEN TrueObj ELSE FalseObj
\* what L OP R is by the order of the cases, same telling whether the two
\* operands are one object
OfKinds(l, op, r, same) ==
  IF l.kind = "INTEGER" /\ r.kind = "INTEGER" THEN OfIntegers(op, l.obj.i, r.obj.i)
  ELSE IF l.kind = "STRING" /\ r.kind = "STRING"
  THEN IF op = "+" THEN String(l.obj.s \o r.obj.s)
       ELSE Error("unknown operator: STRING " \o op \o " STRING")
  ELSE IF op = "==" THEN (IF same THEN TrueObj ELSE FalseObj)
  ELSE IF op = "!=" THEN (IF same THEN FalseObj ELSE TrueObj)
  ELSE IF l.kind # r.kind
  THEN Error("type mismatch: " \o l.kind \o " " \o op \o " " \o r.kind)
  ELSE Error("unknown operator: " \o l.kind \o " " \o op \o " " \o r.kind)
\* two expressions give one object when they give the same singleton
OneObject(l, r) == l.kind \in {"NULL", "BOOLEAN", "BUILTIN"} /\ l.obj = r.obj
DivisionByZero(op, r) == op = "/" /\ r.obj = Integer(0)

\* C15: for all sample operands L and R (Integers, Booleans, Strings, a Null,
\* a Builtin, an Array, a Hash, a Function) and every infix operator, L OP R
\* is the integer result when both are Integers (the division by zero apart),
\* the concatenation or the Error "unknown operator: STRING OP STRING" when
\* both are Strings, else for == and != the Boolean of the operands being one
\* object, else the Error "type mismatch: LKIND OP RKIND" when the kinds
\* differ, else the Error "unknown operator: LKIND OP RKIND"; the same with
\* both operands the one object bound to a.
C15_InfixByOperandKinds ==
  (EvalOver /\ src \in InfixSources) =>
  \A op \in InfixOperators : \A l \in InfixSamples :
    /\ \A r \in InfixSamples :
         (src = SInfix(l, op, r)
            /\ ~(l.kind = "INTEGER" /\ DivisionByZero(op, r))) =>
           result = OfKinds(l, op, r, OneObject(l, r))
    /\ (src = SSelf(l, op)
          /\ ~(l.kind = "INTEGER" /\ DivisionByZero(op, l))) =>
         result = OfKinds(l, op, l, TRUE)

\* 1 == true has given FALSE, not an Error
C15_Witness ==
  /\ EvalDone
  /\ src = SInfix(Sample(IntToks(1), "INTEGER", Integer(1)), "==",
                  Sample(<<Word("true")>>, "BOOLEAN", TrueObj))
  /\ result = FalseObj

\* the parser has returned and nothing else has happened since: the program
\* waits for the macro passes, or the errors were printed
ParseOver == ParseDone /\ (pc = "parsed" \/ (pc = "read" /\ parsed.errors # <<>>))
\* String() of a parsed Program
ProgramString(prog) == NodeString(Load(prog, <<>>).ast, Load(prog, <<>>).id)

\* the ladder of the binary operators
Rank(op) ==
  CASE op \in {"==", "!="} -> 1
    [] op \in {"<", ">"} -> 2
    [] op \in {"+", "-"} -> 3
    [] op \in {"*", "/"} -> 4
\* the operator applied last: the last one of the lowest rank
Last(ops) ==
  CHOOSE k \in DOMAIN ops :
    \A j \in DOMAIN ops : /\ Rank(ops[j]) >= Rank(ops[k])
                          /\ j > k => Rank(ops[j]) > Rank(ops[k])
\* the chain with every operator in parentheses: tighter operators first,
\* equal ones from the left
RECURSIVE Grouped(_, _)
Grouped(atoms, ops) ==
  IF ops = <<>> THEN atoms[1].text
  ELSE LET k == Last(ops)
           n == Len(ops) IN
       "(" \o Grouped(SubSeq(atoms, 1, k), SubSeq(ops, 1, k - 1))
           \o " " \o ops[k] \o " "
           \o Grouped(SubSeq(atoms, k + 1, n + 1), SubSeq(ops, k + 1, n)) \o ")"

\* C16: every chain of at most MaxChain binary operators between identifiers,
\* and every chain of one or two binary operators whose operands carry prefix
\* operators, index brackets and call parentheses, parses without an error
\* into the tree that applies tighter operators first and operators of equal
\* precedence from the left, prefix operators binding tighter than binary
\* ones and calls and indexes tighter than prefix operators.
C16_PrecedenceLadder ==
  (ParseOver /\ src \in ChainSources) =>
  \A c \in Chains :
    (src = SChain(c)) =>
      /\ parsed.errors = <<>>
      /\ ProgramString(parsed.program) = Grouped(c.atoms, c.ops)

\* a + b * c is parsed as (a + (b * c))
C16_Witness ==
  /\ pc = "parsed"
  /\ src = SChain(Chain(<<Plain(1), Plain(2), Plain(3)>>, <<"+", "*">>))
  /\ ProgramString(parsed.program) = "(a + (b * c))"

\* C17: a line that ends where one more token is expected leaves the one
\* message "expected next token to be X, got EOF instead" in the errors of
\* the parser and no statement in the Program.
C17_FailedExpectationDropsStatement ==
  (ParseOver /\ src \in UnfinishedSources) =>
  \A u \in UnfinishedLines :
    src = u.toks =>
      /\ parsed.errors = <<"expected next token to be " \o u.want \o ", got EOF instead">>
      /\ parsed.program.stmts = <<>>

RECURSIVE DecimalValue(_, _)
\* the number a run of decimal digits writes, after the digits read so far
DecimalValue(ds, n) == IF ds = <<>> THEN n ELSE DecimalValue(Tail(ds), 10 * n + Head(ds))

\* C18: a line that is one run of decimal digits within the signed 64-bit
\* range, leading zeros or not, parses without an error to the IntegerLiteral
\* of its decimal value and evaluates to that Integer; a run outside the range
\* leaves the message "could not parse X as integer" and a statement without
\* an expression.
C18_IntegerLiteralIsDecimal ==
  \A d \in DigitRuns :
    src = <<Number(d.ds)>> =>
      /\ ParseOver =>
           IF d.inRange
           THEN /\ parsed.errors = <<>>
                /\ Len(parsed.program.stmts) = 1
                /\ parsed.program.stmts[1].expr.t = "IntegerLiteral"
                /\ parsed.program.stmts[1].expr.i = DecimalValue(d.ds, 0)
           ELSE /\ parsed.errors
                     = <<"could not parse " \o FmtQ(DigitString(d.ds)) \o " as integer">>
                /\ Len(parsed.program.stmts) = 1
                /\ parsed.program.stmts[1].expr = NilT
      /\ (EvalOver /\ d.inRange) => result = Integer(DecimalValue(d.ds, 0))

\* C19: the call of a function whose body is empty gives the Null value.
C19_EmptyBodyCallIsNull ==
  (EvalOver /\ src \in EmptyBodyCalls) => result = NULL

\* the objects bound to a name in some frame
BoundObjects(h) == UNION {{h[e].store[n] : n \in DOMAIN h[e].store} : e \in Frames(h)}
\* obj is a ReturnValue or an Array with a ReturnValue among its elements
HoldsReturnValue(obj) ==
  \/ obj.k = "RETURN_VALUE"
  \/ obj.k = "ARRAY" /\ \E j \in DOMAIN obj.elems : obj.elems[j].k = "RETURN_VALUE"
\* the Errors of operators and built-ins that were handed a ReturnValue
OfReturnValueOperand ==
  {Error("type mismatch: INTEGER + RETURN_VALUE"),
   Error("type mismatch: RETURN_VALUE + INTEGER"),
   Error("unknown operator: -RETURN_VALUE"),
   Error("argument to 'len' not supported, got RETURN_VALUE")}

\* C20: no name and no parameter is bound to a ReturnValue, no Array holds
\* one, the result of a Program is not one and does not hold one, and no
\* operator or built-in reports a ReturnValue operand.
C20_ReturnValueNeverObservable ==
  /\ \A obj \in BoundObjects(heap) : ~HoldsReturnValue(obj)
  /\ ~HoldsReturnValue(result)
  /\ result \notin OfReturnValueOperand

\* C21: the program is the same tree after its evaluation as before, and the
\* function of body quote(unquote(x) + 1), called last with 1 or with 2, gives
\* QUOTE((1 + 1)) or QUOTE((2 + 1)), whatever it was called with before.
C21_EvalLeavesAST ==
  EvalOver =>
    /\ Tree(ast, program) = Given
    /\ \A args \in {<<1>>, <<2>>, <<1, 2>>} :
         src = SQuoteCalls(args) =>
           Shown(result, ast) = "QUOTE((" \o ToString(args[Len(args)]) \o " + 1))"

\* C22: with m bound to macro() { quote(7) }, the expansion of a statement
\* that holds the call m() in any child position of any node variant is the
\* statement with 7 in that position: the walk has offered the node in that
\* position to the rewriter.
C22_ModifyVisitsEveryChild ==
  (ExpandDone /\ src \in ExpandSources) =>
    \A i \in DOMAIN Holding(<<>>) :
      src = SExpandIn(i) =>
        Tree(ast, program) = ParseProgram(Holding(IntToks(7))[i]).program

\* C23: quote(E), with unquote(INNER) in any child position of any expression
\* variant of E, gives the Quote of E with the expression that writes the
\* value of INNER in that position (8 for 4 + 4, true for 1 < 2, (4 + 4) for
\* quote(4 + 4)) and the rest of E as it was written; quote(8 + unquote(4 + 4))
\* is QUOTE((8 + 8)), quote(foobar + unquote(4 + 4)) is QUOTE((foobar + 8)) and
\* quote(add(unquote(1 + 2), 3)) is QUOTE(add(3, 3)).
C23_QuoteReplacesEveryUnquote ==
  (EvalOver /\ src \in UnquoteSources) =>
    /\ \A i \in ExpressionHolders : \A u \in UnquotedSamples :
         src = SQuoteIn(i, u) =>
           Shown(result, ast)
             = "QUOTE(" \o ProgramString(ParseProgram(Holding(u.written)[i]).program) \o ")"
    /\ src = SQuoteRest(IntToks(8)) => Shown(result, ast) = "QUOTE((8 + 8))"
    /\ src = SQuoteRest(<<Word("foobar")>>) => Shown(result, ast) = "QUOTE((foobar + 8))"
    /\ src = SQuoteAdd => Shown(result, ast) = "QUOTE(add(3, 3))"

\* C24: the pairs of {K1: V1, K2: V2} are evaluated K1, V1, K2, V2: when both
\* keys or both values raise an Error the result is the Error of the first
\* pair, a key's Error comes before its value's, puts in the two values
\* prints in the order of the pairs, and of two pairs with the key 1 the
\* value of the second is the one stored.
C24_HashPairsInSourceOrder ==
  (EvalOver /\ src \in HashOrderSources) =>
    /\ src = SHashKeyErrors => result = Error("identifier not found: a")
    /\ src = SHashValueErrors => result = Error("identifier not found: c")
    /\ src = SHashKeyFirst => result = Error("identifier not found: a")
    /\ src = SHashPuts => out = <<"v1", "v2">>
    /\ src = SHashSameKey => result = String("b")

\* the first argument that is an Error, 0 when there is none
FirstFailing(kinds) ==
  IF \E i \in DOMAIN kinds : kinds[i] # "prints"
  THEN Min({i \in DOMAIN kinds : kinds[i] # "prints"})
  ELSE 0
\* what the arguments up to the first failing one print
PrintedBy(kinds) ==
  LET f == FirstFailing(kinds)
      last == IF f = 0 THEN Len(kinds) ELSE IF kinds[f] = "fails" THEN f - 1 ELSE f IN
  [i \in 1..last |-> "a" \o ToString(i)]

\* C25: a call whose callee prints "callee" and whose arguments print "a1",
\* "a2", ... or are Errors prints "callee" first; when the callee is an Error
\* nothing else is printed and that Error is the result; else the arguments
\* print from the left up to the first that is an Error, that Error is the
\* result and "body" is not printed; without a failing argument "body" is
\* printed last and the result is the body's value.
C25_CalleeThenArgumentsInOrder ==
  (EvalOver /\ src \in CallSources) =>
    \A kinds \in ArgLists :
      /\ src = SCall(FALSE, kinds) =>
           /\ out = <<"callee">>
           /\ result = Error("identifier not found: missing")
      /\ src = SCall(TRUE, kinds) =>
           LET f == FirstFailing(kinds) IN
           /\ out = <<"callee">> \o PrintedBy(kinds) \o (IF f = 0 THEN <<"body">> ELSE <<>>)
           /\ result = IF f = 0 THEN Integer(5)
                        ELSE IF kinds[f] = "fails"
                        THEN Error("identifier not found: e" \o ToString(f))
                        ELSE Error("unknown operator: -NULL")

\* the call with the arguments puts("a1"), e2, puts("a3") has printed callee
\* and a1 only and given the Error of e2
C25_Witness ==
  /\ EvalDone
  /\ src = SCall(TRUE, <<"prints", "fails", "prints">>)
  /\ out = <<"callee", "a1">>
  /\ result = Error("identifier not found: e2")

\* C26: ParseProgram returns for every token stream of the catalog, the
\* malformed and the unterminated ones included: no round of the top-level loop,
\* the block loop, the hash-literal loop or the comma-separated list loops
\* leaves the parser where the round began.
C26_ParseProgramReturns == ParseDone => (~parsed.hung /\ pc # "hung")

\* ParseProgram has returned from a text that ends inside the block of a
\* function literal that is inside the else block of an if
C26_Witness ==
  /\ ParseDone
  /\ src \in Unterminated
  /\ Len(src) = 15
  /\ ~parsed.hung
  /\ parsed.errors # <<>>

\* C27: a function or macro literal whose parameter list holds identifiers
\* only parses without error to a literal with those parameters; one with
\* another token in the place of a parameter, as fn(1, 2) { }, gives a parse
\* error.
C27_ParametersAreIdentifiers ==
  (ParseOver /\ src \in ParamSources) =>
    \A keyword \in {"fn", "macro"} : \A ts \in ParamLists :
      src = SParams(keyword, ts) =>
        IF \A i \in DOMAIN ts : ts[i].Type = "IDENT"
        THEN /\ parsed.errors = <<>>
             /\ parsed.program.stmts[1].expr.params = [i \in DOMAIN ts |-> Id(ts[i].Literal)]
        ELSE parsed.errors # <<>>

\* obj holds an Error: as an element of an Array, as the key or the value of a
\* pair of a Hash, or inside an element, a value or a ReturnValue
RECURSIVE StoresError(_)
StoresError(obj) ==
  CASE obj.k = "ARRAY" ->
         \E j \in DOMAIN obj.elems : isError(obj.elems[j]) \/ StoresError(obj.elems[j])
    [] obj.k = "HASH" ->
         \E h \in DOMAIN obj.pairs :
           \/ isError(obj.pairs[h].Key)
           \/ isError(obj.pairs[h].Value)
           \/ StoresError(obj.pairs[h].Value)
    [] obj.k = "RETURN_VALUE" -> isError(obj.value) \/ StoresError(obj.value)
    [] OTHER -> FALSE

\* C28: no name of any environment frame is bound to an Error, and no Array
\* or Hash that is bound or is the result holds an Error as an element or a
\* value.
C28_NoErrorIsStored ==
  /\ \A obj \in BoundObjects(heap) : ~isError(obj) /\ ~StoresError(obj)
  /\ ~StoresError(result)

\* let v = push([1], [1, nope]) has given the Error of nope and bound nothing
C28_Witness ==
  /\ EvalDone
  /\ src = SStore("push", 13, <<Word("nope")>>)
  /\ result = Error("identifier not found: nope")
  /\ BoundObjects(heap) = {}

\* term has no nil node and no nil list in it; the alternative of an if
\* without else is nil in every parse and is not counted
RECURSIVE Whole(_)
Whole(term) ==
  /\ term.t # "nil"
  /\ "nil" \notin DOMAIN term
  /\ "nilslice" \notin DOMAIN term
  /\ \A j \in DOMAIN Kids(term) :
       \/ term.t = "IfExpression" /\ j = 3 /\ Kids(term)[j] = NilT
       \/ Whole(Kids(term)[j])

\* C29: a Program that ParseProgram returns with an empty list of errors has
\* no nil statement, no nil expression, no nil block and no nil list in it.
C29_NoErrorNoNilNode ==
  (ParseDone /\ ~parsed.hung /\ parsed.errors = <<>>) => Whole(parsed.program)

\* fn(){}() is parsed without error: the call has a list of no arguments and
\* the literal a list of no parameters, neither is nil
C29_Witness ==
  /\ ParseDone
  /\ parsed.errors = <<>>
  /\ src = NoObjectToks
  /\ Whole(parsed.program)
  /\ parsed.program.stmts[1].expr.args = <<>>

\* the number of Call nodes of a term
RECURSIVE Calls(_), CallsSeq(_)
Calls(term) == (IF term.t = "CallExpression" THEN 1 ELSE 0) + CallsSeq(Kids(term))
CallsSeq(terms) == IF terms = <<>> THEN 0 ELSE Calls(Head(terms)) + CallsSeq(Tail(terms))
\* the evaluations of a macro body by the last step: each one makes a frame,
\* and the macro bodies of the sources call no function
BodyEvaluations == Len(heap) - Len(pre.st.heap)

\* C30: ExpandMacros puts for a macro call the node the macro gives and does
\* not go into that node: a macro call in it stays as it is, whether the call
\* is of the same macro, of another one, or was the argument of the call.  The
\* macro bodies are evaluated at most as often as the program has Call nodes.
C30_ExpandMacrosOnePass ==
  (src \in NestedSources) =>
    /\ pc # "panic"
    /\ ExpandDone =>
         /\ BodyEvaluations <= Calls(Given)
         /\ \A x \in Nestings : \A i \in ModifiedHolders :
              src = SNested(x, i) =>
                /\ Tree(ast, program) = ParseProgram(Holding(x.left)[i]).program
                /\ BodyEvaluations = 1
         /\ src = SNestedThree =>
              /\ ProgramString(Tree(ast, program)) = "[n(), 1, n()]"
              /\ BodyEvaluations = 3

\* after the expansion of let m = macro() { quote(m()) }; m() + 1 the program
\* is m() + 1, and the body of m was evaluated once
C30_Witness ==
  /\ ExpandDone
  /\ src = SNested(Nesting(<<MacroToks("m", <<>>, CallToks("m", <<>>))>>,
                           CallToks("m", <<>>), CallToks("m", <<>>)), 2)
  /\ ProgramString(Tree(ast, program)) = "(m() + 1)"
  /\ BodyEvaluations = 1
====
